---- MODULE Spec2Model ----
(***************************************************************************)
(* Model of live-transcribe's streaming transcription correction engine:   *)
(* the text diff (src/src/text_diff.rs), the TranscriptionState state      *)
(* machine (src/src/transcription_state.rs), the two worker lanes          *)
(* (src/src/transcription_worker.rs) and the control loop that connects    *)
(* them (run_app in src/src/main.rs).                                       *)
(*                                                                         *)
(* Strings are sequences of characters; a character is a one-letter TLA+   *)
(* string and len_utf8 gives its encoded width.  An Option<u64> is the     *)
(* empty set (None) or a singleton (Some(id)).  Audio is kept at chunk     *)
(* granularity: vad_buffer is the sequence of the RMS levels of the chunks *)
(* appended to it, each chunk standing for ChunkSamples samples.           *)
(***************************************************************************)
EXTENDS Integers, Sequences, FiniteSets, TLC

\* ------------------------------------------------------------------ bounds
\* Largest request id the model lets process_audio_chunk mint.
MaxRequestId == 3
\* Largest vad_buffer length (in chunks) at which a speech chunk is still fed.
MaxBufferChunks == 6
\* Largest silence_streak at which a silence chunk is still fed.
MaxSilenceStreak == 6
\* Largest number of requests minted in a run of the specification of the wrap.
MaxWrapMints == 3
\* Largest length (in characters) of the texts handed to the text diff alone.
MaxDiffLen == 3
\* Largest number of speech chunks fed between two resets where the audio is recorded.
MaxHeard == 5
\* Largest id of a Cancel message sent to the workers taken on their own.
MaxCancelId == 102

\* ------------------------------------------------------- program constants
MIN_WHISPER_SAMPLES == 24000
COMMIT_SILENCE_CHUNKS == 5
MAX_TRAILING_SILENCE_CHUNKS == 2
LIVE_PREVIEW_DELAY_CHUNKS == 5
MAX_PENDING_REQUESTS == 2
\* default_chunk_duration (ms) and the 16 samples per millisecond of 16 kHz audio
chunk_duration_ms == 300
SamplesPerMs == 16
ChunkSamples == chunk_duration_ms * SamplesPerMs
\* default_silence_threshold, in thousandths (0.003)
silence_threshold == 3

\* ------------------------------------------------------------------ strings
\* 'E' stands for a two-byte character (e.g. U+00E9), 'W' for a three-byte one
\* (e.g. U+4E16), 'Q' for a four-byte one (e.g. U+1F600); the others are ASCII.
Chars == {"a", "b", " ", "E", "W", "Q"}

\* char::len_utf8
len_utf8(c) == IF c = "E" THEN 2 ELSE IF c = "W" THEN 3 ELSE IF c = "Q" THEN 4 ELSE 1

RECURSIVE Encode(_)
\* The UTF-8 bytes of a string: byte k of character c is <<c, k>>.
Encode(s) ==
    IF s = <<>> THEN <<>>
    ELSE [k \in 1..len_utf8(Head(s)) |-> <<Head(s), k>>] \o Encode(Tail(s))

\* str::len: the length in bytes.
ByteLen(s) == Len(Encode(s))

\* str::chars().count()
CharCount(s) == Len(s)

\* str::starts_with: a comparison of bytes.
starts_with(s, p) ==
    LET bs == Encode(s)
        bp == Encode(p)
    IN  Len(bp) <= Len(bs) /\ SubSeq(bs, 1, Len(bp)) = bp

\* &s[n..]: the slice from byte offset n.  Rust panics when n is no character
\* boundary of s; the CHOOSE is then undefined and TLC stops with an error.
ByteSliceFrom(s, n) ==
    LET k == CHOOSE j \in 0..Len(s) : ByteLen(SubSeq(s, 1, j)) = n
    IN  SubSeq(s, k + 1, Len(s))

IsWhitespace(c) == c = " "

RECURSIVE TrimStart(_)
TrimStart(s) ==
    IF s # <<>> /\ IsWhitespace(Head(s)) THEN TrimStart(Tail(s)) ELSE s

RECURSIVE TrimEnd(_)
TrimEnd(s) ==
    IF s # <<>> /\ IsWhitespace(s[Len(s)]) THEN TrimEnd(SubSeq(s, 1, Len(s) - 1)) ELSE s

\* a trim that takes nothing away
Trim_nothing(s) == s

\* str::trim
Trim(s) == TrimEnd(TrimStart(s))

\* ---------------------------------------------------------------- text_diff
RECURSIVE CommonPrefixBytes_ascii_only(_, _)
\* CommonPrefixBytes that stops at the first character wider than one byte
CommonPrefixBytes_ascii_only(old_text, new_text) ==
    IF old_text = <<>> \/ new_text = <<>> THEN 0
    ELSE IF Head(old_text) = Head(new_text) /\ len_utf8(Head(old_text)) = 1
         THEN 1 + CommonPrefixBytes_ascii_only(Tail(old_text), Tail(new_text))
         ELSE 0

RECURSIVE CommonPrefixBytes(_, _)
\* The loop of compute_text_diff over old.chars().zip(new.chars()): the widths of
\* the leading characters that agree, stopping at the first that differ.
CommonPrefixBytes(old_text, new_text) ==
    IF old_text = <<>> \/ new_text = <<>> THEN 0
    ELSE IF Head(old_text) = Head(new_text)
         THEN len_utf8(Head(old_text)) + CommonPrefixBytes(Tail(old_text), Tail(new_text))
         ELSE 0

\* compute_text_diff that types the whole new text after the common prefix
compute_text_diff_whole_new(old_text, new_text) ==
    LET common_prefix_bytes == CommonPrefixBytes(old_text, new_text)
        old_suffix == ByteSliceFrom(old_text, common_prefix_bytes)
    IN  [common_prefix_bytes |-> common_prefix_bytes,
         chars_to_delete |-> CharCount(old_suffix),
         suffix_to_type |-> new_text]

\* compute_text_diff that deletes the whole old text and types the whole new one
compute_text_diff_retype(old_text, new_text) ==
    [common_prefix_bytes |-> 0,
     chars_to_delete |-> CharCount(old_text),
     suffix_to_type |-> new_text]

\* compute_append that compares lengths in characters with the byte offset
compute_append_char_offset(old_text, new_text) ==
    IF starts_with(new_text, old_text) /\ ByteLen(new_text) > ByteLen(old_text)
    THEN {SubSeq(new_text, ByteLen(old_text) + 1, Len(new_text))}
    ELSE {}

\* compute_text_diff counting the bytes of the old suffix instead of its characters
compute_text_diff_bytes(old_text, new_text) ==
    LET common_prefix_bytes == CommonPrefixBytes(old_text, new_text)
        old_suffix == ByteSliceFrom(old_text, common_prefix_bytes)
        new_suffix == ByteSliceFrom(new_text, common_prefix_bytes)
    IN  [common_prefix_bytes |-> common_prefix_bytes,
         chars_to_delete |-> ByteLen(old_suffix),
         suffix_to_type |-> new_suffix]

compute_text_diff(old_text, new_text) ==
    LET common_prefix_bytes == CommonPrefixBytes(old_text, new_text)
        old_suffix == ByteSliceFrom(old_text, common_prefix_bytes)
        new_suffix == ByteSliceFrom(new_text, common_prefix_bytes)
    IN  [common_prefix_bytes |-> common_prefix_bytes,
         chars_to_delete |-> CharCount(old_suffix),
         suffix_to_type |-> new_suffix]

\* compute_append that also answers Some("") when the two texts are equal
compute_append_or_equal(old_text, new_text) ==
    IF starts_with(new_text, old_text) /\ ByteLen(new_text) >= ByteLen(old_text)
    THEN {ByteSliceFrom(new_text, ByteLen(old_text))}
    ELSE {}

\* Option<String>: {} is None, {s} is Some(s).
compute_append(old_text, new_text) ==
    IF starts_with(new_text, old_text) /\ ByteLen(new_text) > ByteLen(old_text)
    THEN {ByteSliceFrom(new_text, ByteLen(old_text))}
    ELSE {}

\* ------------------------------------------------------------------ actions
AppendText(s) == [type |-> "AppendText", text |-> s]
ReplaceText(n, s) == [type |-> "ReplaceText", chars_to_delete |-> n, new_text |-> s]
SubmitVadRequest(audio, id) == [type |-> "SubmitVadRequest", audio |-> audio, request_id |-> id]
SubmitLiveRequest(audio, id) == [type |-> "SubmitLiveRequest", audio |-> audio, request_id |-> id]
CancelLiveRequest == [type |-> "CancelLiveRequest"]
NoAction == [type |-> "NoAction"]

\* -------------------------------------------------------------------- state
VARIABLES
    \* TranscriptionState
    vad_buffer,               \* RMS level of each chunk held
    vad_committed_text,
    live_preview_text,
    silence_streak,
    chunks_since_vad_commit,
    pending_vad_request,      \* Option<u64>
    pending_live_request,     \* Option<u64>
    next_request_id,
    \* TranscriptionWorker and its two threads
    live_queue,               \* the sync_channel behind live_task_sender
    vad_queue,                \* the sync_channel behind vad_task_sender
    live_running,             \* id the live worker is running inference for, as an Option
    vad_running,              \* id the commit worker is running inference for, as an Option
    live_cancelled_ids,       \* cancelled_ids of live_worker_loop
    vad_cancelled_ids,        \* cancelled_ids of vad_worker_loop
    results,                  \* the result channel (result_tx / transcription_results)
    \* the control thread (the event-loop closure of run_app)
    sending,                  \* actions of the current batch not yet executed (a send is blocked)
    \* history
    actions,                  \* what the last call on the state machine returned
    surface,                  \* the keyboard actions since the last reset, replayed
    commit_log,               \* texts of the non-empty commit results accepted since the last reset
    live_shown,               \* a non-empty live result was accepted since the last reset
    \* the reference StateManager of tests/state_management_tests.rs, fed the accepted results
    ref_vad_committed_text,
    ref_live_preview_text,
    ref_screen,               \* its keyboard actions since the last reset, replayed
    minted,                   \* <<lane, id>> of every request emitted, in emission order
    dropped,                  \* ids of the requests a full queue made try_send discard
    cancelled_in_queue,       \* live ids that were queued when cancel_all_live_before was called
    discarded,                \* <<kind, id>> of the worker results consumed while no pending slot held the id
    accepted,                 \* <<kind, id>> of the worker results consumed while a pending slot held the id
    old_session,              \* ids of the requests emitted before the last start event
    \* the text diff called on its own
    old_text,                 \* first argument
    new_text,                 \* second argument
    diff_result,              \* <<>> or <<what compute_text_diff returned>>
    append_result,            \* <<>> or <<what compute_append returned>>
    \* the audio fed and committed, recorded where the chunks are told apart
    heard,                    \* the speech chunks passed to process_audio_chunk since the last reset
    committed_audio,          \* the chunks of each SubmitVadRequest returned since the last reset
    samples_per_chunk         \* samples in a chunk, from the configured chunk_duration_ms

smVars == <<vad_buffer, vad_committed_text, live_preview_text, silence_streak,
            chunks_since_vad_commit, pending_vad_request, pending_live_request,
            next_request_id>>

workerVars == <<live_queue, vad_queue, live_running, vad_running, live_cancelled_ids,
                vad_cancelled_ids, results>>

laneHistory == <<minted, dropped, cancelled_in_queue, discarded, accepted, old_session>>

textHistory == <<surface, commit_log, live_shown, ref_vad_committed_text,
                 ref_live_preview_text, ref_screen>>

diffVars == <<old_text, new_text, diff_result, append_result>>

audioVars == <<heard, committed_audio, samples_per_chunk>>

vars == <<vad_buffer, vad_committed_text, live_preview_text, silence_streak,
          chunks_since_vad_commit, pending_vad_request, pending_live_request,
          next_request_id, live_queue, vad_queue, live_running, vad_running,
          live_cancelled_ids, vad_cancelled_ids, results, sending, actions, surface,
          commit_log, live_shown, ref_vad_committed_text, ref_live_preview_text,
          ref_screen, minted, dropped, cancelled_in_queue, discarded,
          accepted, old_session, old_text, new_text, diff_result, append_result,
          heard, committed_audio, samples_per_chunk>>

\* ------------------------------------------------------- TranscriptionState
\* TranscriptionState::new
new ==
    /\ vad_buffer = <<>>
    /\ vad_committed_text = <<>>
    /\ live_preview_text = <<>>
    /\ silence_streak = 0
    /\ chunks_since_vad_commit = 0
    /\ pending_vad_request = {}
    /\ pending_live_request = {}
    /\ next_request_id = 1

\* reset that leaves the two pending slots as they are
reset_keeps_pending ==
    /\ vad_buffer' = <<>>
    /\ vad_committed_text' = <<>>
    /\ live_preview_text' = <<>>
    /\ silence_streak' = 0
    /\ chunks_since_vad_commit' = 0
    /\ UNCHANGED <<pending_vad_request, pending_live_request, next_request_id>>
    /\ actions' = <<>>

\* reset that also rewinds the id counter to its initial value
reset_rewinds ==
    /\ vad_buffer' = <<>>
    /\ vad_committed_text' = <<>>
    /\ live_preview_text' = <<>>
    /\ silence_streak' = 0
    /\ chunks_since_vad_commit' = 0
    /\ pending_vad_request' = {}
    /\ pending_live_request' = {}
    /\ next_request_id' = 1
    /\ actions' = <<>>

\* TranscriptionState::reset (next_request_id and silence_threshold are not touched)
reset ==
    /\ vad_buffer' = <<>>
    /\ vad_committed_text' = <<>>
    /\ live_preview_text' = <<>>
    /\ silence_streak' = 0
    /\ chunks_since_vad_commit' = 0
    /\ pending_vad_request' = {}
    /\ pending_live_request' = {}
    /\ UNCHANGED next_request_id
    /\ actions' = <<>>

\* AudioCapture::is_silence on a non-empty chunk of RMS level rms
is_silence(rms) == rms < silence_threshold

\* A u64 request id v is written as the integer n of least magnitude with
\* n = v (mod 2^64): 1 is 1, 0 is 0 and -1 is u64::MAX = 2^64 - 1.  The model
\* only holds ids a few steps away from 0, on either side of the wrap.
U64Max == -1

\* u64::wrapping_add(1): from u64::MAX (-1) to 0 as from any id to the next
wrapping_add_1(n) == n + 1

\* a < b as u64 values: the ids written as negative integers are the largest
U64Less(a, b) == IF (a < 0) = (b < 0) THEN a < b ELSE b < 0

\* A buffer resized to MIN_WHISPER_SAMPLES with zeros when it is shorter.
Padded(buffer) ==
    LET samples == Len(buffer) * samples_per_chunk
    IN  [chunks |-> buffer,
         zeros |-> IF samples < MIN_WHISPER_SAMPLES THEN MIN_WHISPER_SAMPLES - samples ELSE 0]

\* ProcessSilenceChunk that cancels the pending live request at the commit
\* threshold also when the commit itself has to wait
ProcessSilenceChunk_cancels_early(new_audio) ==
    LET streak == silence_streak + 1
        buffer == IF vad_buffer # <<>> /\ streak <= MAX_TRAILING_SILENCE_CHUNKS
                  THEN Append(vad_buffer, new_audio)
                  ELSE vad_buffer
    IN  /\ silence_streak' = streak
        /\ IF streak >= COMMIT_SILENCE_CHUNKS /\ buffer # <<>> /\ pending_vad_request = {}
           THEN /\ actions' = <<SubmitVadRequest(Padded(buffer), next_request_id)>>
                              \o (IF pending_live_request # {} THEN <<CancelLiveRequest>> ELSE <<>>)
                /\ next_request_id' = wrapping_add_1(next_request_id)
                /\ pending_vad_request' = {next_request_id}
                /\ pending_live_request' = {}
                /\ vad_buffer' = <<>>
                /\ chunks_since_vad_commit' = 0
           ELSE /\ actions' = IF streak >= COMMIT_SILENCE_CHUNKS /\ pending_live_request # {}
                              THEN <<CancelLiveRequest>> ELSE <<>>
                /\ pending_live_request' = IF streak >= COMMIT_SILENCE_CHUNKS
                                           THEN {} ELSE pending_live_request
                /\ vad_buffer' = buffer
                /\ UNCHANGED <<next_request_id, pending_vad_request, chunks_since_vad_commit>>
        /\ UNCHANGED <<vad_committed_text, live_preview_text>>

\* ProcessSilenceChunk that keeps the buffer after the commit request
ProcessSilenceChunk_keeps_buffer(new_audio) ==
    LET streak == silence_streak + 1
        buffer == IF vad_buffer # <<>> /\ streak <= MAX_TRAILING_SILENCE_CHUNKS
                  THEN Append(vad_buffer, new_audio)
                  ELSE vad_buffer
    IN  /\ silence_streak' = streak
        /\ IF streak >= COMMIT_SILENCE_CHUNKS /\ buffer # <<>> /\ pending_vad_request = {}
           THEN /\ actions' = <<SubmitVadRequest(Padded(buffer), next_request_id)>>
                              \o (IF pending_live_request # {} THEN <<CancelLiveRequest>> ELSE <<>>)
                /\ next_request_id' = wrapping_add_1(next_request_id)
                /\ pending_vad_request' = {next_request_id}
                /\ pending_live_request' = {}
                /\ vad_buffer' = buffer
                /\ chunks_since_vad_commit' = 0
           ELSE /\ actions' = <<>>
                /\ vad_buffer' = buffer
                /\ UNCHANGED <<next_request_id, pending_vad_request, pending_live_request,
                               chunks_since_vad_commit>>
        /\ UNCHANGED <<vad_committed_text, live_preview_text>>

\* ProcessSilenceChunk that appends every silent chunk to a non-empty buffer
ProcessSilenceChunk_keeps_all_silence(new_audio) ==
    LET streak == silence_streak + 1
        buffer == IF vad_buffer # <<>>
                  THEN Append(vad_buffer, new_audio)
                  ELSE vad_buffer
    IN  /\ silence_streak' = streak
        /\ IF streak >= COMMIT_SILENCE_CHUNKS /\ buffer # <<>> /\ pending_vad_request = {}
           THEN /\ actions' = <<SubmitVadRequest(Padded(buffer), next_request_id)>>
                              \o (IF pending_live_request # {} THEN <<CancelLiveRequest>> ELSE <<>>)
                /\ next_request_id' = wrapping_add_1(next_request_id)
                /\ pending_vad_request' = {next_request_id}
                /\ pending_live_request' = {}
                /\ vad_buffer' = <<>>
                /\ chunks_since_vad_commit' = 0
           ELSE /\ actions' = <<>>
                /\ vad_buffer' = buffer
                /\ UNCHANGED <<next_request_id, pending_vad_request, pending_live_request,
                               chunks_since_vad_commit>>
        /\ UNCHANGED <<vad_committed_text, live_preview_text>>

\* ProcessSilenceChunk that empties the buffer whenever the silence is long enough,
\* also when the commit cannot be submitted
ProcessSilenceChunk_drops_deferred(new_audio) ==
    LET streak == silence_streak + 1
        buffer == IF vad_buffer # <<>> /\ streak <= MAX_TRAILING_SILENCE_CHUNKS
                  THEN Append(vad_buffer, new_audio)
                  ELSE vad_buffer
    IN  /\ silence_streak' = streak
        /\ IF streak >= COMMIT_SILENCE_CHUNKS /\ buffer # <<>> /\ pending_vad_request = {}
           THEN /\ actions' = <<SubmitVadRequest(Padded(buffer), next_request_id)>>
                              \o (IF pending_live_request # {} THEN <<CancelLiveRequest>> ELSE <<>>)
                /\ next_request_id' = wrapping_add_1(next_request_id)
                /\ pending_vad_request' = {next_request_id}
                /\ pending_live_request' = {}
                /\ vad_buffer' = <<>>
                /\ chunks_since_vad_commit' = 0
           ELSE /\ actions' = <<>>
                /\ vad_buffer' = IF streak >= COMMIT_SILENCE_CHUNKS THEN <<>> ELSE buffer
                /\ chunks_since_vad_commit' = IF streak >= COMMIT_SILENCE_CHUNKS
                                              THEN 0 ELSE chunks_since_vad_commit
                /\ UNCHANGED <<next_request_id, pending_vad_request, pending_live_request>>
        /\ UNCHANGED <<vad_committed_text, live_preview_text>>

\* ProcessSilenceChunk without the check that no commit request is pending
ProcessSilenceChunk_resubmits(new_audio) ==
    LET streak == silence_streak + 1
        buffer == IF vad_buffer # <<>> /\ streak <= MAX_TRAILING_SILENCE_CHUNKS
                  THEN Append(vad_buffer, new_audio)
                  ELSE vad_buffer
    IN  /\ silence_streak' = streak
        /\ IF streak >= COMMIT_SILENCE_CHUNKS /\ buffer # <<>>
           THEN /\ actions' = <<SubmitVadRequest(Padded(buffer), next_request_id)>>
                              \o (IF pending_live_request # {} THEN <<CancelLiveRequest>> ELSE <<>>)
                /\ next_request_id' = wrapping_add_1(next_request_id)
                /\ pending_vad_request' = {next_request_id}
                /\ pending_live_request' = {}
                /\ vad_buffer' = <<>>
                /\ chunks_since_vad_commit' = 0
           ELSE /\ actions' = <<>>
                /\ vad_buffer' = buffer
                /\ UNCHANGED <<next_request_id, pending_vad_request, pending_live_request,
                               chunks_since_vad_commit>>
        /\ UNCHANGED <<vad_committed_text, live_preview_text>>

\* TranscriptionState::process_audio_chunk, the silence branch
ProcessSilenceChunk(new_audio) ==
    LET streak == silence_streak + 1
        buffer == IF vad_buffer # <<>> /\ streak <= MAX_TRAILING_SILENCE_CHUNKS
                  THEN Append(vad_buffer, new_audio)
                  ELSE vad_buffer
    IN  /\ silence_streak' = streak
        /\ IF streak >= COMMIT_SILENCE_CHUNKS /\ buffer # <<>> /\ pending_vad_request = {}
           THEN /\ actions' = <<SubmitVadRequest(Padded(buffer), next_request_id)>>
                              \o (IF pending_live_request # {} THEN <<CancelLiveRequest>> ELSE <<>>)
                /\ next_request_id' = wrapping_add_1(next_request_id)
                /\ pending_vad_request' = {next_request_id}
                /\ pending_live_request' = {}
                /\ vad_buffer' = <<>>
                /\ chunks_since_vad_commit' = 0
           ELSE /\ actions' = <<>>
                /\ vad_buffer' = buffer
                /\ UNCHANGED <<next_request_id, pending_vad_request, pending_live_request,
                               chunks_since_vad_commit>>
        /\ UNCHANGED <<vad_committed_text, live_preview_text>>

\* ProcessSpeechChunk that pads vad_buffer itself for the live request; the
\* padding is kept in the buffer as a block of level 0
ProcessSpeechChunk_pads_buffer(new_audio) ==
    LET chunks == chunks_since_vad_commit + 1
        buffer == Append(vad_buffer, new_audio)
    IN  /\ silence_streak' = 0
        /\ chunks_since_vad_commit' = chunks
        /\ IF chunks >= LIVE_PREVIEW_DELAY_CHUNKS /\ pending_live_request = {}
           THEN /\ actions' = <<SubmitLiveRequest(Padded(buffer), next_request_id)>>
                /\ vad_buffer' = IF Padded(buffer).zeros > 0 THEN Append(buffer, 0) ELSE buffer
                /\ next_request_id' = wrapping_add_1(next_request_id)
                /\ pending_live_request' = {next_request_id}
           ELSE /\ actions' = <<>>
                /\ vad_buffer' = buffer
                /\ UNCHANGED <<next_request_id, pending_live_request>>
        /\ UNCHANGED <<pending_vad_request, vad_committed_text, live_preview_text>>

\* ProcessSpeechChunk that submits a live request while one is pending
ProcessSpeechChunk_ignores_pending(new_audio) ==
    LET chunks == chunks_since_vad_commit + 1
        buffer == Append(vad_buffer, new_audio)
    IN  /\ silence_streak' = 0
        /\ chunks_since_vad_commit' = chunks
        /\ vad_buffer' = buffer
        /\ IF chunks >= LIVE_PREVIEW_DELAY_CHUNKS
           THEN /\ actions' = <<SubmitLiveRequest(Padded(buffer), next_request_id)>>
                /\ next_request_id' = wrapping_add_1(next_request_id)
                /\ pending_live_request' = {next_request_id}
           ELSE /\ actions' = <<>>
                /\ UNCHANGED <<next_request_id, pending_live_request>>
        /\ UNCHANGED <<pending_vad_request, vad_committed_text, live_preview_text>>

\* TranscriptionState::process_audio_chunk, the speech branch
ProcessSpeechChunk(new_audio) ==
    LET chunks == chunks_since_vad_commit + 1
        buffer == Append(vad_buffer, new_audio)
    IN  /\ silence_streak' = 0
        /\ chunks_since_vad_commit' = chunks
        /\ vad_buffer' = buffer
        /\ IF chunks >= LIVE_PREVIEW_DELAY_CHUNKS /\ pending_live_request = {}
           THEN /\ actions' = <<SubmitLiveRequest(Padded(buffer), next_request_id)>>
                /\ next_request_id' = wrapping_add_1(next_request_id)
                /\ pending_live_request' = {next_request_id}
           ELSE /\ actions' = <<>>
                /\ UNCHANGED <<next_request_id, pending_live_request>>
        /\ UNCHANGED <<pending_vad_request, vad_committed_text, live_preview_text>>

\* TranscriptionState::process_audio_chunk
process_audio_chunk(new_audio) ==
    IF is_silence(new_audio)
    THEN ProcessSilenceChunk(new_audio)
    ELSE ProcessSpeechChunk(new_audio)

\* IsPendingVad without the comparison of ids: any result is taken while one is awaited
IsPendingVad_any(request_id) == pending_vad_request # {}

\* "Verify this is the request we're waiting for", commit lane
IsPendingVad(request_id) == pending_vad_request = {request_id}

\* IsPendingLive without the comparison of ids
IsPendingLive_any(request_id) == pending_live_request # {}

\* "Verify this is the request we're waiting for", live lane
IsPendingLive(request_id) == pending_live_request = {request_id}

\* NewVadCommitted that forgets what was committed before
NewVadCommitted_overwrite(text) == text \o <<" ">>

\* NewVadCommitted without the separating space
NewVadCommitted_no_space(text) == vad_committed_text \o text

\* "Build what the full committed text should be"
NewVadCommitted(text) == vad_committed_text \o text \o <<" ">>

\* FullLiveText without the committed prefix
FullLiveText_bare(text) == text

\* "Build full text: VAD committed + new live preview"
FullLiveText(text) == vad_committed_text \o text

\* VadAction that types the whole committed text again on every commit
VadAction_retypes(new_vad_committed) == AppendText(new_vad_committed)

\* The keyboard action process_vad_result returns for an accepted non-empty text.
VadAction(new_vad_committed) ==
    LET suffix == compute_append(live_preview_text, new_vad_committed)
        diff == compute_text_diff(live_preview_text, new_vad_committed)
    IN  IF suffix # {}
        THEN AppendText(CHOOSE s \in suffix : TRUE)
        ELSE IF live_preview_text # <<>>
             THEN IF diff.chars_to_delete > 0 \/ diff.suffix_to_type # <<>>
                  THEN ReplaceText(diff.chars_to_delete, diff.suffix_to_type)
                  ELSE NoAction
             ELSE AppendText(new_vad_committed)

\* TranscriptionState::process_vad_result
process_vad_result(text, request_id) ==
    IF ~IsPendingVad(request_id)
    THEN /\ actions' = <<NoAction>>
         /\ UNCHANGED smVars
    ELSE /\ pending_vad_request' = {}
         /\ IF text = <<>>
            THEN /\ actions' = <<NoAction>>
                 /\ UNCHANGED <<vad_committed_text, live_preview_text>>
            ELSE LET new_vad_committed == NewVadCommitted(text)
                 IN  /\ actions' = <<VadAction(new_vad_committed)>>
                     /\ vad_committed_text' = new_vad_committed
                     /\ live_preview_text' = new_vad_committed
         /\ UNCHANGED <<vad_buffer, silence_streak, chunks_since_vad_commit,
                        pending_live_request, next_request_id>>

\* LiveAction that runs the diff engine whenever the new text is no extension
LiveAction_diff_only(full_live_text) ==
    LET suffix == compute_append(live_preview_text, full_live_text)
        diff == compute_text_diff(live_preview_text, full_live_text)
    IN  IF suffix # {}
        THEN AppendText(CHOOSE s \in suffix : TRUE)
        ELSE IF diff.chars_to_delete > 0 \/ diff.suffix_to_type # <<>>
             THEN ReplaceText(diff.chars_to_delete, diff.suffix_to_type)
             ELSE NoAction

\* LiveAction that does nothing when the new hypothesis is a prefix of what is shown
LiveAction_no_walkback(full_live_text) ==
    LET suffix == compute_append(live_preview_text, full_live_text)
        diff == compute_text_diff(live_preview_text, full_live_text)
    IN  IF suffix # {}
        THEN AppendText(CHOOSE s \in suffix : TRUE)
        ELSE IF starts_with(live_preview_text, full_live_text)
             THEN NoAction
             ELSE IF diff.chars_to_delete > 0 \/ diff.suffix_to_type # <<>>
                  THEN ReplaceText(diff.chars_to_delete, diff.suffix_to_type)
                  ELSE NoAction

\* The keyboard action process_live_result returns for an accepted non-empty text.
LiveAction(full_live_text) ==
    LET suffix == compute_append(live_preview_text, full_live_text)
        diff == compute_text_diff(live_preview_text, full_live_text)
    IN  IF suffix # {}
        THEN AppendText(CHOOSE s \in suffix : TRUE)
        ELSE IF starts_with(live_preview_text, full_live_text)
             THEN ReplaceText(CharCount(live_preview_text) - CharCount(full_live_text), <<>>)
             ELSE IF diff.chars_to_delete > 0 \/ diff.suffix_to_type # <<>>
                  THEN ReplaceText(diff.chars_to_delete, diff.suffix_to_type)
                  ELSE NoAction

\* process_live_result that takes the accepted hypothesis as committed text
process_live_result_commits(text, request_id) ==
    IF ~IsPendingLive(request_id)
    THEN /\ actions' = <<NoAction>>
         /\ UNCHANGED smVars
    ELSE /\ pending_live_request' = {}
         /\ IF text = <<>>
            THEN /\ actions' = <<NoAction>>
                 /\ UNCHANGED <<live_preview_text, vad_committed_text>>
            ELSE LET full_live_text == FullLiveText(text)
                 IN  /\ actions' = <<LiveAction(full_live_text)>>
                     /\ live_preview_text' = full_live_text
                     /\ vad_committed_text' = full_live_text
         /\ UNCHANGED <<vad_buffer, silence_streak,
                        chunks_since_vad_commit, pending_vad_request, next_request_id>>

\* TranscriptionState::process_live_result
process_live_result(text, request_id) ==
    IF ~IsPendingLive(request_id)
    THEN /\ actions' = <<NoAction>>
         /\ UNCHANGED smVars
    ELSE /\ pending_live_request' = {}
         /\ IF text = <<>>
            THEN /\ actions' = <<NoAction>>
                 /\ UNCHANGED live_preview_text
            ELSE LET full_live_text == FullLiveText(text)
                 IN  /\ actions' = <<LiveAction(full_live_text)>>
                     /\ live_preview_text' = full_live_text
         /\ UNCHANGED <<vad_buffer, vad_committed_text, silence_streak,
                        chunks_since_vad_commit, pending_vad_request, next_request_id>>

\* process_error that clears both slots whatever the id
process_error_clears_all(request_id) ==
    /\ pending_vad_request' = {}
    /\ pending_live_request' = {}
    /\ actions' = <<NoAction>>
    /\ UNCHANGED <<vad_buffer, vad_committed_text, live_preview_text, silence_streak,
                   chunks_since_vad_commit, next_request_id>>

\* TranscriptionState::process_error; the caller turns it into Action::NoAction
process_error(request_id) ==
    /\ pending_vad_request' = IF IsPendingVad(request_id) THEN {} ELSE pending_vad_request
    /\ pending_live_request' = IF IsPendingLive(request_id) THEN {} ELSE pending_live_request
    /\ actions' = <<NoAction>>
    /\ UNCHANGED <<vad_buffer, vad_committed_text, live_preview_text, silence_streak,
                   chunks_since_vad_commit, next_request_id>>

\* ------------------------------------------------------------- text surface
\* One step of replay_keyboard_actions: delete from the end (saturating), then type.
ReplayAction(screen, action) ==
    IF action.type = "AppendText" THEN screen \o action.text
    ELSE IF action.type = "ReplaceText"
         THEN LET keep_count == IF Len(screen) >= action.chars_to_delete
                                THEN Len(screen) - action.chars_to_delete ELSE 0
              IN  SubSeq(screen, 1, keep_count) \o action.new_text
         ELSE screen

RECURSIVE replay_keyboard_actions(_, _)
replay_keyboard_actions(screen, batch) ==
    IF batch = <<>> THEN screen
    ELSE replay_keyboard_actions(ReplayAction(screen, Head(batch)), Tail(batch))

\* ------------------------------------------------- the reference model
\* StateManager of tests/state_management_tests.rs: delete everything shown,
\* retype the full text.
KeyboardAction(delete_count, type_text) ==
    [delete_count |-> delete_count, type_text |-> type_text]

\* One action of StateManager::replay_actions.
replay_actions(screen, action) ==
    LET keep_count == IF Len(screen) >= action.delete_count
                      THEN Len(screen) - action.delete_count ELSE 0
    IN  SubSeq(screen, 1, keep_count) \o action.type_text

StateManager_new ==
    /\ ref_vad_committed_text = <<>>
    /\ ref_live_preview_text = <<>>
    /\ ref_screen = <<>>

\* StateManager::vad_commit
vad_commit(text) ==
    IF text = <<>>
    THEN UNCHANGED <<ref_vad_committed_text, ref_live_preview_text, ref_screen>>
    ELSE LET current_char_count == CharCount(ref_live_preview_text)
             new_vad_committed == ref_vad_committed_text \o text \o <<" ">>
         IN  /\ ref_screen' = replay_actions(ref_screen,
                                  KeyboardAction(current_char_count, new_vad_committed))
             /\ ref_vad_committed_text' = new_vad_committed
             /\ ref_live_preview_text' = new_vad_committed

\* StateManager::live_preview
live_preview(text) ==
    IF text = <<>>
    THEN UNCHANGED <<ref_vad_committed_text, ref_live_preview_text, ref_screen>>
    ELSE LET current_char_count == CharCount(ref_live_preview_text)
             full_live_text == ref_vad_committed_text \o text
         IN  /\ ref_screen' = replay_actions(ref_screen,
                                  KeyboardAction(current_char_count, full_live_text))
             /\ ref_live_preview_text' = full_live_text
             /\ UNCHANGED ref_vad_committed_text

\* ------------------------------------------ results applied to the surface
\* The result arms of run_app: the state machine handles the result and the
\* keyboard action it returns is executed on the surface.
ConsumeVadResult(text, request_id) ==
    /\ process_vad_result(text, request_id)
    /\ surface' = replay_keyboard_actions(surface, actions')
    /\ commit_log' = IF pending_vad_request = {request_id} /\ text # <<>>
                     THEN Append(commit_log, text) ELSE commit_log
    /\ IF pending_vad_request = {request_id}
       THEN vad_commit(text)
       ELSE UNCHANGED <<ref_vad_committed_text, ref_live_preview_text, ref_screen>>
    /\ UNCHANGED live_shown

ConsumeLiveResult(text, request_id) ==
    /\ process_live_result(text, request_id)
    /\ surface' = replay_keyboard_actions(surface, actions')
    /\ live_shown' = (live_shown \/ (pending_live_request = {request_id} /\ text # <<>>))
    /\ IF pending_live_request = {request_id}
       THEN live_preview(text)
       ELSE UNCHANGED <<ref_vad_committed_text, ref_live_preview_text, ref_screen>>
    /\ UNCHANGED commit_log

ConsumeError(request_id) ==
    /\ process_error(request_id)
    /\ UNCHANGED textHistory

\* reset starts a new session: the replay starts again from an empty surface
StartSession ==
    /\ reset
    /\ surface' = <<>>
    /\ commit_log' = <<>>
    /\ live_shown' = FALSE
    /\ ref_vad_committed_text' = <<>>
    /\ ref_live_preview_text' = <<>>
    /\ ref_screen' = <<>>

\* --------------------------------------- the state machine called directly
\* RMS levels of the chunks fed, in thousandths: one below silence_threshold
\* (silence) and one at it (speech).
ChunkRms == {2, 3}

\* Texts handed to process_vad_result / process_live_result: empty, one word, a
\* longer word, a word with a trailing space, a two-byte character.
Texts == {<<>>, <<"a">>, <<"a", "b">>, <<"a", " ">>, <<"E">>}

\* Request ids handed to the result handlers: every id the model can mint.
RequestIds == 1..MaxRequestId

\* The chunks the model feeds: ids, buffer length and silence streak stay bounded.
ChunkAllowed(rms) ==
    /\ next_request_id <= MaxRequestId
    /\ IF is_silence(rms)
       THEN silence_streak < MaxSilenceStreak
       ELSE Len(vad_buffer) < MaxBufferChunks

CallAudioChunk ==
    \E rms \in ChunkRms :
        /\ ChunkAllowed(rms)
        /\ process_audio_chunk(rms)
        /\ UNCHANGED <<textHistory, workerVars, sending, laneHistory, diffVars, audioVars>>

CallVadResult ==
    \E text \in Texts, request_id \in RequestIds :
        /\ ConsumeVadResult(text, request_id)
        /\ UNCHANGED <<workerVars, sending, laneHistory, diffVars, audioVars>>

CallLiveResult ==
    \E text \in Texts, request_id \in RequestIds :
        /\ ConsumeLiveResult(text, request_id)
        /\ UNCHANGED <<workerVars, sending, laneHistory, diffVars, audioVars>>

CallError ==
    \E request_id \in RequestIds :
        /\ ConsumeError(request_id)
        /\ UNCHANGED <<workerVars, sending, laneHistory, diffVars, audioVars>>

CallReset ==
    /\ StartSession
    /\ UNCHANGED <<workerVars, sending, laneHistory, diffVars, audioVars>>

Init ==
    /\ new
    /\ live_queue = <<>>
    /\ vad_queue = <<>>
    /\ live_running = {}
    /\ vad_running = {}
    /\ live_cancelled_ids = {}
    /\ vad_cancelled_ids = {}
    /\ results = <<>>
    /\ sending = <<>>
    /\ actions = <<>>
    /\ surface = <<>>
    /\ commit_log = <<>>
    /\ live_shown = FALSE
    /\ StateManager_new
    /\ minted = <<>>
    /\ dropped = {}
    /\ cancelled_in_queue = {}
    /\ discarded = {}
    /\ accepted = {}
    /\ old_session = {}
    /\ old_text = <<>>
    /\ new_text = <<>>
    /\ diff_result = <<>>
    /\ append_result = <<>>
    /\ heard = <<>>
    /\ committed_audio = <<>>
    /\ samples_per_chunk = ChunkSamples

ApiNext ==
    \/ CallAudioChunk
    \/ CallVadResult
    \/ CallLiveResult
    \/ CallError
    \/ CallReset

\* The state machine under every sequence of calls of its public operations.
ApiSpec == Init /\ [][ApiNext]_vars

\* ------------------------------------------------------- TranscriptionWorker
Transcribe(request_id) == [type |-> "Transcribe", request_id |-> request_id]
\* run_app passes u64::MAX; the workers never read the value
CancelAllBefore == [type |-> "CancelAllBefore", request_id |-> "u64::MAX"]

LivePreview(text, request_id) == [kind |-> "LivePreview", text |-> text, request_id |-> request_id]
VadCommit(text, request_id) == [kind |-> "VadCommit", text |-> text, request_id |-> request_id]
Error(error, request_id) == [kind |-> "Error", error |-> error, request_id |-> request_id]

\* The request ids of the Transcribe messages of a queue.
QueuedIds(queue) ==
    {queue[i].request_id : i \in {j \in 1..Len(queue) : queue[j].type = "Transcribe"}}

\* try_send on a channel without a bound
try_send_unbounded(queue, message) == Append(queue, message)

\* SyncSender::try_send on a channel of capacity MAX_PENDING_REQUESTS: the queue
\* afterwards; a full queue is left as it is (TrySendError::Full).
try_send(queue, message) ==
    IF Len(queue) < MAX_PENDING_REQUESTS THEN Append(queue, message) ELSE queue

\* The lanes as the control thread sees them while it executes a batch.
Lanes == [live_queue |-> live_queue, vad_queue |-> vad_queue, dropped |-> dropped,
          cancelled_in_queue |-> cancelled_in_queue, rest |-> <<>>]

\* TranscriptionWorker::transcribe_vad_commit_with_id
transcribe_vad_commit_with_id(w, request_id) ==
    [w EXCEPT !.vad_queue = try_send(@, Transcribe(request_id)),
              !.dropped = IF Len(w.vad_queue) < MAX_PENDING_REQUESTS
                          THEN @ ELSE @ \cup {request_id}]

\* TranscriptionWorker::transcribe_live_preview_with_id
transcribe_live_preview_with_id(w, request_id) ==
    [w EXCEPT !.live_queue = try_send(@, Transcribe(request_id)),
              !.dropped = IF Len(w.live_queue) < MAX_PENDING_REQUESTS
                          THEN @ ELSE @ \cup {request_id}]

RECURSIVE ExecuteActions(_, _)
\* The loop over the batch in run_app.  cancel_all_live_before uses the blocking
\* SyncSender::send: with the live queue full the control thread waits there and
\* the actions from the cancellation on are left in rest.
ExecuteActions(batch, w) ==
    IF batch = <<>> THEN [w EXCEPT !.rest = <<>>]
    ELSE LET action == Head(batch)
         IN  IF action.type = "SubmitVadRequest"
             THEN ExecuteActions(Tail(batch),
                                 transcribe_vad_commit_with_id(w, action.request_id))
             ELSE IF action.type = "SubmitLiveRequest"
             THEN ExecuteActions(Tail(batch),
                                 transcribe_live_preview_with_id(w, action.request_id))
             ELSE IF action.type = "CancelLiveRequest"
             THEN IF Len(w.live_queue) < MAX_PENDING_REQUESTS
                  THEN ExecuteActions(Tail(batch),
                           [w EXCEPT !.live_queue = Append(@, CancelAllBefore),
                                     !.cancelled_in_queue = @ \cup QueuedIds(w.live_queue)])
                  ELSE [w EXCEPT !.rest = batch,
                                 !.cancelled_in_queue = @ \cup QueuedIds(w.live_queue)]
             ELSE ExecuteActions(Tail(batch), w)

RunBatch(batch) ==
    LET w == ExecuteActions(batch, Lanes)
    IN  /\ live_queue' = w.live_queue
        /\ vad_queue' = w.vad_queue
        /\ dropped' = w.dropped
        /\ cancelled_in_queue' = w.cancelled_in_queue
        /\ sending' = w.rest

\* The requests of a batch, for the history.
RECURSIVE Requests(_)
Requests(batch) ==
    IF batch = <<>> THEN <<>>
    ELSE (IF Head(batch).type = "SubmitVadRequest"
          THEN << <<"vad", Head(batch).request_id>> >>
          ELSE IF Head(batch).type = "SubmitLiveRequest"
               THEN << <<"live", Head(batch).request_id>> >>
               ELSE <<>>) \o Requests(Tail(batch))

\* MAX_CANCELLED_IDS of the worker loops
MAX_CANCELLED_IDS == 100

Min(S) == CHOOSE x \in S : \A y \in S : x <= y

\* The worker loop without the eviction that bounds cancelled_ids
HandleMessage_unbounded(message, cancelled_ids) ==
    IF message.type = "Transcribe"
    THEN IF message.request_id \in cancelled_ids
         THEN [cancelled_ids |-> cancelled_ids \ {message.request_id}, running |-> {}]
         ELSE [cancelled_ids |-> cancelled_ids, running |-> {message.request_id}]
    ELSE IF message.type = "Cancel"
    THEN [cancelled_ids |-> cancelled_ids \cup {message.request_id}, running |-> {}]
    ELSE [cancelled_ids |-> {}, running |-> {}]

\* One message taken by a worker loop: the cancelled set afterwards and the id
\* whose inference starts, as an Option.
HandleMessage(message, cancelled_ids) ==
    IF message.type = "Transcribe"
    THEN IF message.request_id \in cancelled_ids
         THEN [cancelled_ids |-> cancelled_ids \ {message.request_id}, running |-> {}]
         ELSE [cancelled_ids |-> cancelled_ids, running |-> {message.request_id}]
    ELSE IF message.type = "Cancel"
    THEN LET inserted == cancelled_ids \cup {message.request_id}
         IN  [cancelled_ids |-> IF Cardinality(inserted) > MAX_CANCELLED_IDS
                                THEN inserted \ {Min(inserted)} ELSE inserted,
              running |-> {}]
    ELSE [cancelled_ids |-> {}, running |-> {}]

\* What an inference run may do: fail, or yield segments of text (none, one
\* word, a word with the leading space of a Whisper segment, a blank segment).
InferenceOutcomes ==
    {[ok |-> TRUE, segments |-> <<>>],
     [ok |-> TRUE, segments |-> << <<"a">> >>],
     [ok |-> TRUE, segments |-> << <<" ", "a", "b">> >>],
     [ok |-> TRUE, segments |-> << <<" ">> >>],
     [ok |-> FALSE]}

RECURSIVE CollectSegments(_)
\* "Collect all transcribed text": each segment followed by a space.
CollectSegments(segments) ==
    IF segments = <<>> THEN <<>>
    ELSE Head(segments) \o <<" ">> \o CollectSegments(Tail(segments))

\* TranscriberWithState::transcribe on success: the collected text, trimmed.
transcribe(segments) == Trim(CollectSegments(segments))

\* LiveWorkerReceive that takes the newest message of the queue
LiveWorkerReceive_newest_first ==
    /\ live_running = {}
    /\ live_queue # <<>>
    /\ LET h == HandleMessage(live_queue[Len(live_queue)], live_cancelled_ids)
       IN  /\ live_cancelled_ids' = h.cancelled_ids
           /\ live_running' = h.running
    /\ live_queue' = SubSeq(live_queue, 1, Len(live_queue) - 1)
    /\ UNCHANGED <<smVars, vad_queue, vad_running, vad_cancelled_ids, results, sending,
                   actions, textHistory, laneHistory, diffVars, audioVars>>

\* live_worker_loop takes the next message
LiveWorkerReceive ==
    /\ live_running = {}
    /\ live_queue # <<>>
    /\ LET h == HandleMessage(Head(live_queue), live_cancelled_ids)
       IN  /\ live_cancelled_ids' = h.cancelled_ids
           /\ live_running' = h.running
    /\ live_queue' = Tail(live_queue)
    /\ UNCHANGED <<smVars, vad_queue, vad_running, vad_cancelled_ids, results, sending,
                   actions, textHistory, laneHistory, diffVars, audioVars>>

\* LiveWorkerFinish that sends nothing when the inference fails
LiveWorkerFinish_silent_failure ==
    /\ live_running # {}
    /\ \E outcome \in InferenceOutcomes :
         LET request_id == CHOOSE id \in live_running : TRUE
         IN  results' = IF outcome.ok
                        THEN Append(results,
                                    LivePreview(Trim(transcribe(outcome.segments)), request_id))
                        ELSE results
    /\ live_running' = {}
    /\ UNCHANGED <<smVars, live_queue, vad_queue, vad_running, live_cancelled_ids,
                   vad_cancelled_ids, sending, actions, textHistory, laneHistory, diffVars, audioVars>>

\* live_worker_loop: inference ends and its result is sent
LiveWorkerFinish ==
    /\ live_running # {}
    /\ \E outcome \in InferenceOutcomes :
         LET request_id == CHOOSE id \in live_running : TRUE
         IN  results' = Append(results,
                 IF outcome.ok THEN LivePreview(Trim(transcribe(outcome.segments)), request_id)
                 ELSE Error("Live preview error", request_id))
    /\ live_running' = {}
    /\ UNCHANGED <<smVars, live_queue, vad_queue, vad_running, live_cancelled_ids,
                   vad_cancelled_ids, sending, actions, textHistory, laneHistory, diffVars, audioVars>>

\* vad_worker_loop takes the next message
VadWorkerReceive ==
    /\ vad_running = {}
    /\ vad_queue # <<>>
    /\ LET h == HandleMessage(Head(vad_queue), vad_cancelled_ids)
       IN  /\ vad_cancelled_ids' = h.cancelled_ids
           /\ vad_running' = h.running
    /\ vad_queue' = Tail(vad_queue)
    /\ UNCHANGED <<smVars, live_queue, live_running, live_cancelled_ids, results, sending,
                   actions, textHistory, laneHistory, diffVars, audioVars>>

\* vad_worker_loop: inference ends and its result is sent
VadWorkerFinish ==
    /\ vad_running # {}
    /\ \E outcome \in InferenceOutcomes :
         LET request_id == CHOOSE id \in vad_running : TRUE
         IN  results' = Append(results,
                 IF outcome.ok THEN VadCommit(Trim(transcribe(outcome.segments)), request_id)
                 ELSE Error("VAD commit error", request_id))
    /\ vad_running' = {}
    /\ UNCHANGED <<smVars, live_queue, vad_queue, live_running, live_cancelled_ids,
                   vad_cancelled_ids, sending, actions, textHistory, laneHistory, diffVars, audioVars>>

\* ------------------------------------------------- run_app: the control thread
\* "Poll transcription results": one result taken by try_recv and handled
PollResult ==
    /\ sending = <<>>
    /\ results # <<>>
    /\ LET result == Head(results)
       IN  IF result.kind = "VadCommit"
           THEN ConsumeVadResult(result.text, result.request_id)
           ELSE IF result.kind = "LivePreview"
                THEN ConsumeLiveResult(result.text, result.request_id)
                ELSE ConsumeError(result.request_id)
    /\ results' = Tail(results)
    /\ discarded' = IF Head(results).request_id \in pending_vad_request \cup pending_live_request
                    THEN discarded
                    ELSE discarded \cup {<<Head(results).kind, Head(results).request_id>>}
    /\ accepted' = IF Head(results).request_id \in pending_vad_request \cup pending_live_request
                   THEN accepted \cup {<<Head(results).kind, Head(results).request_id>>}
                   ELSE accepted
    /\ UNCHANGED <<live_queue, vad_queue, live_running, vad_running, live_cancelled_ids,
                   vad_cancelled_ids, sending, minted, dropped, cancelled_in_queue,
                   old_session,
                   diffVars, audioVars>>

\* A start event (hotkey, toggle or tray menu): start_transcription, then reset.
\* Whether the capture is recording is left to the audio collaborator: a chunk
\* may come at any time.
StartTranscription ==
    /\ sending = <<>>
    /\ StartSession
    /\ old_session' = {minted[i][2] : i \in 1..Len(minted)}
    /\ UNCHANGED <<workerVars, sending, minted, dropped, cancelled_in_queue, discarded,
                   accepted, diffVars, audioVars>>

\* "Hybrid VAD + live preview streaming": a chunk is ready, the state machine
\* processes it and the returned actions are executed.
AudioChunk ==
    /\ sending = <<>>
    /\ \E rms \in ChunkRms :
         /\ ChunkAllowed(rms)
         /\ process_audio_chunk(rms)
    /\ RunBatch(actions')
    /\ minted' = minted \o Requests(actions')
    /\ UNCHANGED <<discarded, accepted, old_session, live_running, vad_running,
                   live_cancelled_ids, vad_cancelled_ids, results, textHistory, diffVars,
                   audioVars>>

\* The blocked cancel_all_live_before goes through once the live queue has room.
CancelSendCompletes ==
    /\ sending # <<>>
    /\ Len(live_queue) < MAX_PENDING_REQUESTS
    /\ RunBatch(sending)
    /\ UNCHANGED <<smVars, live_running, vad_running, live_cancelled_ids,
                   vad_cancelled_ids, results, actions, textHistory, minted, discarded,
                   accepted, old_session, diffVars, audioVars>>

Next ==
    \/ AudioChunk
    \/ CancelSendCompletes
    \/ PollResult
    \/ StartTranscription
    \/ LiveWorkerReceive
    \/ LiveWorkerFinish
    \/ VadWorkerReceive
    \/ VadWorkerFinish

\* The control thread and the two worker threads, interleaved.
Spec == Init /\ [][Next]_vars

\* The same system when every worker goes on (it takes the next message and
\* every inference ends) and the control thread goes on polling and gets through
\* a blocked send once the queue has room.  Nothing is assumed of the chunks and
\* start events.
FairSpec ==
    /\ Spec
    /\ WF_vars(LiveWorkerReceive)
    /\ WF_vars(LiveWorkerFinish)
    /\ WF_vars(VadWorkerReceive)
    /\ WF_vars(VadWorkerFinish)
    /\ WF_vars(PollResult)
    /\ WF_vars(CancelSendCompletes)

\* --------------------------------- the state machine around the id wrap
\* The state machine called directly as in ApiSpec, in runs that begin either at
\* construction or one mint below the wrap of the id counter (the state after
\* 2^64 - 2 requests and a reset), with every request recorded in minted.
WrapInit ==
    /\ vad_buffer = <<>>
    /\ vad_committed_text = <<>>
    /\ live_preview_text = <<>>
    /\ silence_streak = 0
    /\ chunks_since_vad_commit = 0
    /\ pending_vad_request = {}
    /\ pending_live_request = {}
    /\ next_request_id \in {1, U64Max}
    /\ live_queue = <<>>
    /\ vad_queue = <<>>
    /\ live_running = {}
    /\ vad_running = {}
    /\ live_cancelled_ids = {}
    /\ vad_cancelled_ids = {}
    /\ results = <<>>
    /\ sending = <<>>
    /\ actions = <<>>
    /\ surface = <<>>
    /\ commit_log = <<>>
    /\ live_shown = FALSE
    /\ StateManager_new
    /\ minted = <<>>
    /\ dropped = {}
    /\ cancelled_in_queue = {}
    /\ discarded = {}
    /\ accepted = {}
    /\ old_session = {}
    /\ old_text = <<>>
    /\ new_text = <<>>
    /\ diff_result = <<>>
    /\ append_result = <<>>
    /\ heard = <<>>
    /\ committed_audio = <<>>
    /\ samples_per_chunk = ChunkSamples

\* Request ids handed to the result handlers around the wrap.
WrapRequestIds == {U64Max, 0} \cup RequestIds

WrapAudioChunk ==
    \E rms \in ChunkRms :
        /\ ChunkAllowed(rms)
        /\ Len(minted) < MaxWrapMints
        /\ process_audio_chunk(rms)
        /\ minted' = minted \o Requests(actions')
        /\ UNCHANGED <<textHistory, workerVars, sending, dropped, cancelled_in_queue,
                       discarded, accepted, old_session, diffVars, audioVars>>

WrapVadResult ==
    \E text \in Texts, request_id \in WrapRequestIds :
        /\ ConsumeVadResult(text, request_id)
        /\ UNCHANGED <<workerVars, sending, laneHistory, diffVars, audioVars>>

WrapLiveResult ==
    \E text \in Texts, request_id \in WrapRequestIds :
        /\ ConsumeLiveResult(text, request_id)
        /\ UNCHANGED <<workerVars, sending, laneHistory, diffVars, audioVars>>

WrapError ==
    \E request_id \in WrapRequestIds :
        /\ ConsumeError(request_id)
        /\ UNCHANGED <<workerVars, sending, laneHistory, diffVars, audioVars>>

WrapNext ==
    \/ WrapAudioChunk
    \/ WrapVadResult
    \/ WrapLiveResult
    \/ WrapError
    \/ CallReset

WrapSpec == WrapInit /\ [][WrapNext]_vars

\* ------------------------------------------------ the text diff on its own
\* The characters of the texts handed to the diff: one of each encoded width.
DiffChars == {"a", "E", "W", "Q"}

\* Every text of at most MaxDiffLen of these characters.
DiffTexts == UNION {[1..k -> DiffChars] : k \in 0..MaxDiffLen}

\* compute_text_diff and compute_append called on every pair of texts.
DiffInit ==
    /\ new
    /\ live_queue = <<>>
    /\ vad_queue = <<>>
    /\ live_running = {}
    /\ vad_running = {}
    /\ live_cancelled_ids = {}
    /\ vad_cancelled_ids = {}
    /\ results = <<>>
    /\ sending = <<>>
    /\ actions = <<>>
    /\ surface = <<>>
    /\ commit_log = <<>>
    /\ live_shown = FALSE
    /\ StateManager_new
    /\ minted = <<>>
    /\ dropped = {}
    /\ cancelled_in_queue = {}
    /\ discarded = {}
    /\ accepted = {}
    /\ old_session = {}
    /\ old_text \in DiffTexts
    /\ new_text \in DiffTexts
    /\ diff_result = <<>>
    /\ append_result = <<>>
    /\ heard = <<>>
    /\ committed_audio = <<>>
    /\ samples_per_chunk = ChunkSamples

CallComputeTextDiff ==
    /\ diff_result' = <<compute_text_diff(old_text, new_text)>>
    /\ UNCHANGED <<smVars, workerVars, sending, actions, textHistory, laneHistory,
                   old_text, new_text, append_result, audioVars>>

CallComputeAppend ==
    /\ append_result' = <<compute_append(old_text, new_text)>>
    /\ UNCHANGED <<smVars, workerVars, sending, actions, textHistory, laneHistory,
                   old_text, new_text, diff_result, audioVars>>

DiffNext ==
    \/ CallComputeTextDiff
    \/ CallComputeAppend

DiffSpec == DiffInit /\ [][DiffNext]_vars

\* ---------------------------------------- the worker loops taken on their own
\* WorkerMessage::Cancel, which nothing in the program sends.
Cancel(request_id) == [type |-> "Cancel", request_id |-> request_id]

Max(S) == CHOOSE x \in S : \A y \in S : y <= x

\* Both worker loops take the message; the inference of a Transcribe is left out.
WorkerHandles(message) ==
    /\ live_cancelled_ids' = HandleMessage(message, live_cancelled_ids).cancelled_ids
    /\ vad_cancelled_ids' = HandleMessage(message, vad_cancelled_ids).cancelled_ids
    /\ UNCHANGED <<smVars, live_queue, vad_queue, live_running, vad_running, results,
                   sending, actions, textHistory, laneHistory, diffVars, audioVars>>

\* Cancel messages come with increasing ids.
ReceiveCancel ==
    \E request_id \in 1..MaxCancelId :
        /\ request_id = (IF live_cancelled_ids = {} THEN 1 ELSE Max(live_cancelled_ids) + 1)
        /\ WorkerHandles(Cancel(request_id))

\* A Transcribe for the request cancelled last, or for one that was not cancelled.
ReceiveTranscribe ==
    \E request_id \in 1..(MaxCancelId + 1) :
        /\ \/ live_cancelled_ids # {} /\ request_id = Max(live_cancelled_ids)
           \/ request_id = MaxCancelId + 1
        /\ WorkerHandles(Transcribe(request_id))

ReceiveCancelAllBefore == WorkerHandles(CancelAllBefore)

WorkerNext ==
    \/ ReceiveCancel
    \/ ReceiveTranscribe
    \/ ReceiveCancelAllBefore

WorkerSpec == Init /\ [][WorkerNext]_vars

\* ------------------------------- the state machine fed distinguishable audio
\* RMS levels of the chunks fed here: silence and two levels of speech, so that
\* one speech chunk can be told from the next.
AudioRms == {2, 3, 4}

\* Chunk durations configured here, in ms: the default and a shorter one, with
\* which LIVE_PREVIEW_DELAY_CHUNKS chunks are less than MIN_WHISPER_SAMPLES.
ChunkDurationsMs == {chunk_duration_ms, chunk_duration_ms - 100}

AudioInit ==
    /\ new
    /\ live_queue = <<>>
    /\ vad_queue = <<>>
    /\ live_running = {}
    /\ vad_running = {}
    /\ live_cancelled_ids = {}
    /\ vad_cancelled_ids = {}
    /\ results = <<>>
    /\ sending = <<>>
    /\ actions = <<>>
    /\ surface = <<>>
    /\ commit_log = <<>>
    /\ live_shown = FALSE
    /\ StateManager_new
    /\ minted = <<>>
    /\ dropped = {}
    /\ cancelled_in_queue = {}
    /\ discarded = {}
    /\ accepted = {}
    /\ old_session = {}
    /\ old_text = <<>>
    /\ new_text = <<>>
    /\ diff_result = <<>>
    /\ append_result = <<>>
    /\ heard = <<>>
    /\ committed_audio = <<>>
    /\ \E ms \in ChunkDurationsMs : samples_per_chunk = ms * SamplesPerMs

\* The audio of the commit requests of a batch of actions, in order.
RECURSIVE VadAudio(_)
VadAudio(batch) ==
    IF batch = <<>> THEN <<>>
    ELSE (IF Head(batch).type = "SubmitVadRequest"
          THEN <<Head(batch).audio.chunks>> ELSE <<>>) \o VadAudio(Tail(batch))

AudioCallChunk ==
    \E rms \in AudioRms :
        /\ ChunkAllowed(rms)
        /\ is_silence(rms) \/ Len(heard) < MaxHeard
        /\ process_audio_chunk(rms)
        /\ heard' = IF is_silence(rms) THEN heard ELSE Append(heard, rms)
        /\ committed_audio' = committed_audio \o VadAudio(actions')
        /\ UNCHANGED <<samples_per_chunk, textHistory, workerVars, sending, laneHistory, diffVars>>

AudioCallReset ==
    /\ StartSession
    /\ heard' = <<>>
    /\ committed_audio' = <<>>
    /\ UNCHANGED <<samples_per_chunk, workerVars, sending, laneHistory, diffVars>>

\* The result of the pending commit or live request arrives; what the text is
\* does not bear on the audio, one text stands for all.
AudioCallResult ==
    \E request_id \in pending_vad_request \cup pending_live_request :
        /\ IF pending_vad_request = {request_id}
           THEN ConsumeVadResult(<<"a">>, request_id)
           ELSE ConsumeLiveResult(<<"a">>, request_id)
        /\ UNCHANGED <<workerVars, sending, laneHistory, diffVars, audioVars>>

AudioNext ==
    \/ AudioCallChunk
    \/ AudioCallResult
    \/ AudioCallReset

\* The state machine under every sequence of calls, with the audio recorded.
AudioSpec == AudioInit /\ [][AudioNext]_vars

\* ================================================================== claims
IsPrefix(p, s) == Len(p) <= Len(s) /\ SubSeq(s, 1, Len(p)) = p

RECURSIVE Joined(_)
\* t1 + " " + t2 + " " + ... + tn + " "
Joined(log) == IF log = <<>> THEN <<>> ELSE Head(log) \o <<" ">> \o Joined(Tail(log))

\* The live requests emitted before some commit request was emitted.
SupersededLive ==
    {minted[i][2] : i \in {j \in 1..Len(minted) :
        /\ minted[j][1] = "live"
        /\ \E k \in (j + 1)..Len(minted) : minted[k][1] = "vad"}}

\* The ids of the commit requests emitted.
MintedVad == {minted[i][2] : i \in {j \in 1..Len(minted) : minted[j][1] = "vad"}}

\* The Transcribe requests of a lane that are queued or being run.
Outstanding(queue, running) == QueuedIds(queue) \cup running

\* C1: a ReplaceText returned by a result handler deletes at most the characters
\* the surface shows beyond the committed text, so the text committed before the
\* call is still a prefix of the surface after it (reset starts a new surface).
C1_CommittedNeverDeleted ==
    [][/\ \A i \in 1..Len(actions') :
            actions'[i].type = "ReplaceText" =>
                actions'[i].chars_to_delete
                    <= CharCount(live_preview_text) - CharCount(vad_committed_text)
       /\ (IsPrefix(vad_committed_text, surface') \/ StartSession)]_vars

\* C1 witness: on top of committed text a live result made the machine delete
\* part of the preview and type a correction.
C1_Witness ==
    /\ vad_committed_text # <<>>
    /\ live_shown
    /\ Len(actions) = 1
    /\ actions[1].type = "ReplaceText"
    /\ actions[1].chars_to_delete > 0

\* C2: a step other than reset leaves vad_committed_text unchanged or is the
\* handling of a commit result with non-empty text on the pending commit id and
\* appends that text and a space to it.
C2_CommittedMonotonic ==
    [][\/ StartSession
       \/ vad_committed_text' = vad_committed_text
       \/ \E text \in Texts \ {<<>>}, request_id \in pending_vad_request :
            /\ process_vad_result(text, request_id)
            /\ vad_committed_text' = vad_committed_text \o text \o <<" ">>]_vars

\* C2 witness: two commit results were appended and a preview is shown after them.
C2_Witness ==
    /\ Len(commit_log) >= 2
    /\ live_preview_text # vad_committed_text

\* C3: the keyboard actions emitted since the last reset, replayed in order on an
\* empty surface, give exactly live_preview_text.
C3_SurfaceEqualsPreview == surface = live_preview_text

\* C3 witness: the last action deleted characters and typed others after a commit.
C3_Witness ==
    /\ commit_log # <<>>
    /\ Len(actions) = 1
    /\ actions[1].type = "ReplaceText"
    /\ actions[1].chars_to_delete > 0
    /\ actions[1].new_text # <<>>

\* C4: while no live result has been shown since the last reset, the surface and
\* vad_committed_text both equal the accepted commit texts, each followed by a space.
C4_NoDuplication ==
    ~live_shown =>
        /\ surface = Joined(commit_log)
        /\ vad_committed_text = Joined(commit_log)

\* C4 witness: two different commit results accepted and no live result in between.
C4_Witness ==
    /\ ~live_shown
    /\ Len(commit_log) >= 2
    /\ commit_log[1] # commit_log[2]

\* C5: vad_committed_text is always a prefix of live_preview_text, and the two are
\* equal right after reset and right after a non-empty commit result is accepted.
C5_CommittedPrefixOfPreview ==
    /\ [](IsPrefix(vad_committed_text, live_preview_text))
    /\ [][/\ StartSession => live_preview_text' = vad_committed_text'
          /\ \A text \in Texts \ {<<>>}, request_id \in pending_vad_request :
                process_vad_result(text, request_id)
                    => live_preview_text' = vad_committed_text']_vars

\* C5 witness: committed text followed by a preview suffix.
C5_Witness ==
    /\ vad_committed_text # <<>>
    /\ Len(live_preview_text) > Len(vad_committed_text)

\* C6: a result or an error whose id differs from the pending slot (for an error,
\* from both slots) returns NoAction and leaves every field of the state unchanged.
C6_StaleIdRejected ==
    [][\A request_id \in RequestIds :
        /\ (/\ pending_vad_request # {request_id}
            /\ \E text \in Texts : process_vad_result(text, request_id))
                => (UNCHANGED smVars /\ actions' = <<NoAction>>)
        /\ (/\ pending_live_request # {request_id}
            /\ \E text \in Texts : process_live_result(text, request_id))
                => (UNCHANGED smVars /\ actions' = <<NoAction>>)
        /\ (/\ request_id \notin pending_vad_request \cup pending_live_request
            /\ process_error(request_id))
                => UNCHANGED smVars]_vars

\* C6 witness: the last call returned NoAction while both slots are still pending
\* (an accepted result or a matching error would have cleared one).
C6_Witness ==
    /\ actions = <<NoAction>>
    /\ pending_vad_request # {}
    /\ pending_live_request # {}
    /\ vad_buffer # <<>>
    /\ live_preview_text # <<>>

\* C7: the result of a live request emitted before a commit request is rejected
\* when the control thread takes it from the result channel: NoAction, and the
\* state (live_preview_text included) is unchanged.
C7_CommitNotStomped ==
    [][(/\ PollResult
        /\ Head(results).request_id \in SupersededLive)
            => (UNCHANGED smVars /\ actions' = <<NoAction>>)]_vars

\* C7 witness: the preview of a superseded live request was discarded while a
\* newer live request was pending and the commit had been accepted.
C7_Witness ==
    /\ \E id \in SupersededLive : <<"LivePreview", id>> \in discarded
    /\ pending_live_request # {}
    /\ commit_log # <<>>

\* C8: each lane has at most one Transcribe request queued or being run.
C8_OneOutstandingPerLane ==
    /\ Cardinality(Outstanding(live_queue, live_running)) <= 1
    /\ Cardinality(Outstanding(vad_queue, vad_running)) <= 1

\* C9: no commit request the state machine emitted is discarded at submission.
C9_CommitNeverDropped == MintedVad \cap dropped = {}

\* C10: a live request that was queued when the cancellation was issued is never
\* run by the live worker.
C10_CancelledNeverRun == live_running \cap cancelled_in_queue = {}

\* C11: outside the submission of a commit request the control thread never
\* waits on a worker: no batch is ever left half executed behind a send to the
\* live lane, whatever the live queue holds and whatever the live worker does.
C11_ControlNeverBlocksOnLive == sending = <<>>

\* The number of actions of a type in a batch.
CountOf(batch, type) == Cardinality({i \in 1..Len(batch) : batch[i].type = type})

\* C12: process_audio_chunk returns a SubmitVadRequest exactly when the chunk is
\* silence, the incremented silence_streak is at least COMMIT_SILENCE_CHUNKS,
\* vad_buffer is non-empty and no commit request is pending; the batch is then
\* one SubmitVadRequest with a new id, followed by one CancelLiveRequest exactly
\* when a live request was pending, and afterwards pending_vad_request holds that
\* id, pending_live_request and vad_buffer are empty and chunks_since_vad_commit
\* is 0.
C12_CommitTrigger ==
    [][\A rms \in ChunkRms :
        process_audio_chunk(rms) =>
            LET trigger == /\ is_silence(rms)
                           /\ silence_streak + 1 >= COMMIT_SILENCE_CHUNKS
                           /\ vad_buffer # <<>>
                           /\ pending_vad_request = {}
            IN  /\ (CountOf(actions', "SubmitVadRequest") > 0) <=> trigger
                /\ trigger =>
                      /\ CountOf(actions', "SubmitVadRequest") = 1
                      /\ CountOf(actions', "CancelLiveRequest")
                            = (IF pending_live_request # {} THEN 1 ELSE 0)
                      /\ Len(actions') = (IF pending_live_request # {} THEN 2 ELSE 1)
                      /\ actions'[1].type = "SubmitVadRequest"
                      /\ actions'[1].request_id = next_request_id
                      /\ pending_vad_request' = {actions'[1].request_id}
                      /\ pending_live_request' = {}
                      /\ vad_buffer' = <<>>
                      /\ chunks_since_vad_commit' = 0]_vars

\* C12 witness: the last chunk triggered a commit while a live request was pending.
C12_Witness ==
    /\ Len(actions) = 2
    /\ actions[1].type = "SubmitVadRequest"
    /\ actions[2].type = "CancelLiveRequest"
    /\ pending_vad_request = {actions[1].request_id}
    /\ vad_buffer = <<>>

\* The ids of the requests emitted, in emission order.
MintedIds == [i \in 1..Len(minted) |-> minted[i][2]]

\* The requests returned by the step, when it is a call of process_audio_chunk.
MintedByStep ==
    {actions'[i].request_id : i \in {j \in 1..Len(actions') :
        actions'[j].type \in {"SubmitVadRequest", "SubmitLiveRequest"}}}

\* C13 as stated: every id emitted, on either lane and also across reset, is
\* greater (as a u64) than every id emitted before it.
C13_IdsStrictlyIncreasing ==
    \A i, j \in 1..Len(minted) : i < j => U64Less(MintedIds[i], MintedIds[j])

\* C13, amended: the ids emitted are pairwise different, and each is greater than
\* every id emitted before it unless the counter wrapped in between (u64::MAX was
\* emitted, after which the counter restarts from 0); the first id of a run is
\* the initial value of the counter (1 after construction); a call of
\* process_audio_chunk emits at most one request, its id is next_request_id
\* and the counter then advances by one modulo 2^64, no other step changes the
\* counter, reset included.
C13_IdsIncreaseUntilWrap ==
    /\ [](/\ \A i, j \in 1..Len(minted) :
                i < j => /\ MintedIds[i] # MintedIds[j]
                         /\ \/ U64Less(MintedIds[i], MintedIds[j])
                            \/ \E k \in i..(j - 1) : MintedIds[k] = U64Max
           /\ (minted # <<>> => MintedIds[1] \in {1, U64Max}))
    /\ [][IF \E rms \in ChunkRms : process_audio_chunk(rms)
          THEN /\ Cardinality(MintedByStep) <= 1
               /\ MintedByStep \subseteq {next_request_id}
               /\ next_request_id' = IF MintedByStep = {}
                                      THEN next_request_id
                                      ELSE IF next_request_id = U64Max
                                           THEN 0 ELSE next_request_id + 1
          ELSE next_request_id' = next_request_id]_vars

\* C13 witness: three requests on both lanes, the first with id u64::MAX, the
\* second with id 0.
C13_Witness ==
    /\ Len(minted) = 3
    /\ MintedIds[1] = U64Max
    /\ MintedIds[2] = 0
    /\ \E i, j \in 1..3 : minted[i][1] = "vad" /\ minted[j][1] = "live"

RECURSIVE CommonPrefixChars(_, _)
\* The number of leading characters two texts share.
CommonPrefixChars(p, n) ==
    IF p = <<>> \/ n = <<>> \/ Head(p) # Head(n) THEN 0
    ELSE 1 + CommonPrefixChars(Tail(p), Tail(n))

\* The text from character k + 1 on.
DropChars(s, k) == SubSeq(s, k + 1, Len(s))

IsProperPrefix(p, s) == IsPrefix(p, s) /\ p # s

\* C14: a commit result with non-empty text on the pending commit id, with
\* N = vad_committed_text + text + " " and P = live_preview_text before the call,
\* returns AppendText(N without P) if P is a proper prefix of N, NoAction if
\* P = N, and otherwise ReplaceText deleting the characters of P beyond the
\* longest common prefix of P and N and typing N beyond that prefix; afterwards
\* vad_committed_text = live_preview_text = N and the commit slot is empty.
C14_CommitResultAction ==
    [][\A text \in Texts \ {<<>>}, request_id \in pending_vad_request :
        process_vad_result(text, request_id) =>
            LET N == vad_committed_text \o text \o <<" ">>
                P == live_preview_text
                k == CommonPrefixChars(P, N)
            IN  /\ actions' = << IF IsProperPrefix(P, N) THEN AppendText(DropChars(N, Len(P)))
                                 ELSE IF P = N THEN NoAction
                                 ELSE ReplaceText(Len(P) - k, DropChars(N, k)) >>
                /\ vad_committed_text' = N
                /\ live_preview_text' = N
                /\ pending_vad_request' = {}]_vars

\* C14 witness: a commit result was accepted and made the machine delete part
\* of the preview and type the rest of the committed text.
C14_Witness ==
    /\ Len(actions) = 1
    /\ actions[1].type = "ReplaceText"
    /\ actions[1].chars_to_delete > 0
    /\ actions[1].new_text # <<>>
    /\ live_preview_text = vad_committed_text
    /\ commit_log # <<>>
    /\ pending_vad_request = {}

\* C15: a live result with non-empty text on the pending live id, with
\* F = vad_committed_text + text and P = live_preview_text before the call,
\* returns AppendText(F without P) if P is a proper prefix of F, else
\* ReplaceText deleting charCount(P) - charCount(F) characters and typing
\* nothing if F is a prefix of P, and otherwise the ReplaceText of the diff
\* between P and F; afterwards live_preview_text = F, the live slot is empty and
\* vad_committed_text is unchanged.
C15_LiveResultAction ==
    [][\A text \in Texts \ {<<>>}, request_id \in pending_live_request :
        process_live_result(text, request_id) =>
            LET F == vad_committed_text \o text
                P == live_preview_text
                k == CommonPrefixChars(P, F)
            IN  /\ actions' = << IF IsProperPrefix(P, F) THEN AppendText(DropChars(F, Len(P)))
                                 ELSE IF IsPrefix(F, P) THEN ReplaceText(Len(P) - Len(F), <<>>)
                                 ELSE ReplaceText(Len(P) - k, DropChars(F, k)) >>
                /\ live_preview_text' = F
                /\ pending_live_request' = {}
                /\ vad_committed_text' = vad_committed_text]_vars

\* C15 witness: after a commit, a live result repeated the preview already shown
\* and the machine returned a ReplaceText that deletes and types nothing.
C15_Witness ==
    /\ actions = <<ReplaceText(0, <<>>)>>
    /\ commit_log # <<>>
    /\ Len(live_preview_text) > Len(vad_committed_text)
    /\ pending_live_request = {}

\* The ids of the Transcribe requests in the two queues.
AllQueuedIds(lq, vq) == QueuedIds(lq) \cup QueuedIds(vq)

\* The ids of the requests emitted so far.
MintedIdSet == {minted[i][2] : i \in 1..Len(minted)}

\* C16: an Error result carries the id of the request its worker was running;
\* when the control thread consumes it, the pending slot that holds that id is
\* emptied and the other slot is unchanged, the action is NoAction, the surface,
\* vad_committed_text, live_preview_text and vad_buffer are unchanged and nothing
\* is put in a queue; and a request only ever enters a queue with an id that was
\* never emitted before, so the failed id is not submitted again.
C16_ErrorClearsOnlyItsSlot ==
    [][/\ (Len(results') > Len(results) /\ results'[Len(results')].kind = "Error") =>
            LET id == results'[Len(results')].request_id
            IN  \/ live_running = {id} /\ live_running' = {} /\ UNCHANGED vad_running
                \/ vad_running = {id} /\ vad_running' = {} /\ UNCHANGED live_running
       /\ (PollResult /\ Head(results).kind = "Error") =>
            LET id == Head(results).request_id
            IN  /\ pending_vad_request' = pending_vad_request \ {id}
                /\ pending_live_request' = pending_live_request \ {id}
                /\ ~(id \in pending_vad_request /\ id \in pending_live_request)
                /\ actions' = <<NoAction>>
                /\ UNCHANGED <<vad_committed_text, live_preview_text, vad_buffer, surface,
                               live_queue, vad_queue, minted, next_request_id>>
       /\ AllQueuedIds(live_queue', vad_queue') \ AllQueuedIds(live_queue, vad_queue)
              \subseteq MintedByStep \ MintedIdSet]_vars

\* C16 witness: the commit worker failed on the pending commit request while a
\* live request was pending and a preview was shown; the error was consumed, the
\* commit slot is empty and the live slot and the preview are still there.
C16_Witness ==
    /\ \E id \in MintedVad : <<"Error", id>> \in accepted
    /\ pending_vad_request = {}
    /\ pending_live_request # {}
    /\ live_preview_text # <<>>
    /\ actions = <<NoAction>>

\* A text that is not empty and holds only whitespace.
IsBlank(text) == text # <<>> /\ \A i \in 1..Len(text) : IsWhitespace(text[i])

\* C17: no success result on the channel is whitespace-only (the worker has
\* trimmed it to the empty text), and a success result with empty text consumed
\* on the pending id of its lane empties that slot, returns NoAction and leaves
\* vad_committed_text, live_preview_text and the surface unchanged.
C17_EmptyResultNoOp ==
    /\ [](\A i \in 1..Len(results) :
            results[i].kind # "Error" =>
                /\ ~IsBlank(results[i].text)
                /\ results[i].text = Trim(results[i].text))
    /\ [][PollResult =>
            LET result == Head(results)
            IN  /\ (/\ result.kind = "VadCommit"
                    /\ result.text = <<>>
                    /\ pending_vad_request = {result.request_id})
                        => /\ pending_vad_request' = {}
                           /\ actions' = <<NoAction>>
                           /\ UNCHANGED <<vad_committed_text, live_preview_text, surface,
                                          pending_live_request>>
                /\ (/\ result.kind = "LivePreview"
                    /\ result.text = <<>>
                    /\ pending_live_request = {result.request_id})
                        => /\ pending_live_request' = {}
                           /\ actions' = <<NoAction>>
                           /\ UNCHANGED <<vad_committed_text, live_preview_text, surface,
                                          pending_vad_request>>]_vars

\* C17 witness: live request 1 was shown, then commit request 2 was accepted on
\* its pending id in the same session and committed nothing: its text was empty.
C17_Witness ==
    /\ accepted = {<<"LivePreview", 1>>, <<"VadCommit", 2>>}
    /\ live_shown
    /\ commit_log = <<>>
    /\ vad_committed_text = <<>>
    /\ live_preview_text # <<>>
    /\ pending_vad_request = {}

\* C18: after reset, from any reachable state, vad_buffer, vad_committed_text and
\* live_preview_text are empty, silence_streak and chunks_since_vad_commit are 0,
\* both pending slots are empty and next_request_id is what it was
\* (silence_threshold is a constant of the model: nothing writes it).
C18_ResetPostcondition ==
    [][StartSession =>
        /\ vad_buffer' = <<>>
        /\ vad_committed_text' = <<>>
        /\ live_preview_text' = <<>>
        /\ silence_streak' = 0
        /\ chunks_since_vad_commit' = 0
        /\ pending_vad_request' = {}
        /\ pending_live_request' = {}
        /\ next_request_id' = next_request_id]_vars

\* C18 witness: the state right after a reset that followed three requests
\* (no chunk leaves both the buffer empty and the silence streak at 0).
C18_Witness ==
    /\ next_request_id = 4
    /\ actions = <<>>
    /\ vad_buffer = <<>>
    /\ silence_streak = 0
    /\ pending_vad_request = {}
    /\ pending_live_request = {}
    /\ live_preview_text = <<>>

\* The ids of the live requests emitted.
MintedLive == {minted[i][2] : i \in {j \in 1..Len(minted) : minted[j][1] = "live"}}

\* C19: when the control thread executes a SubmitLiveRequest, the request is
\* appended to the live queue if the queue holds fewer than MAX_PENDING_REQUESTS
\* messages and is otherwise discarded with the queue left as it is, the control
\* thread going on in both cases; and neither queue (Transcribe and cancel
\* messages together) ever holds more than MAX_PENDING_REQUESTS messages.
C19_LiveSubmitBestEffort ==
    /\ [](/\ Len(live_queue) <= MAX_PENDING_REQUESTS
           /\ Len(vad_queue) <= MAX_PENDING_REQUESTS)
    /\ [][(/\ AudioChunk
           /\ Len(actions') = 1
           /\ actions'[1].type = "SubmitLiveRequest") =>
              /\ live_queue' = IF Len(live_queue) < MAX_PENDING_REQUESTS
                               THEN Append(live_queue, Transcribe(actions'[1].request_id))
                               ELSE live_queue
              /\ sending' = <<>>
              /\ UNCHANGED <<vad_queue, live_running, results>>]_vars

\* C19 witness: a live request was discarded at submission and the live queue
\* is still full.
C19_Witness ==
    /\ MintedLive \cap dropped # {}
    /\ Len(live_queue) = MAX_PENDING_REQUESTS

\* The step appends exactly one result, of one of the kinds, tagged with id.
SendsOneResult(id, kinds) ==
    /\ Len(results') = Len(results) + 1
    /\ SubSeq(results', 1, Len(results)) = results
    /\ results'[Len(results')].request_id = id
    /\ results'[Len(results')].kind \in kinds

\* C20: a worker leaves a run only by sending exactly one result tagged with the
\* id it was running, a LivePreview or an Error for the live worker, a VadCommit
\* or an Error for the commit worker, and then waits for its next message;
\* nothing else puts a result on the channel; and whatever the results are, an
\* Error included, the control thread when it is not inside a send can take the
\* next one.
C20_OneResultPerRun ==
    /\ [][/\ ((live_running # {} /\ live_running' # live_running) =>
                (/\ live_running' = {}
                 /\ \E id \in live_running : SendsOneResult(id, {"LivePreview", "Error"})))
           /\ ((vad_running # {} /\ vad_running' # vad_running) =>
                (/\ vad_running' = {}
                 /\ \E id \in vad_running : SendsOneResult(id, {"VadCommit", "Error"})))
           /\ ((Len(results') > Len(results)) =>
                (\/ live_running # {} /\ live_running' = {} /\ UNCHANGED vad_running
                 \/ vad_running # {} /\ vad_running' = {} /\ UNCHANGED live_running))]_vars
    /\ []((results # <<>> /\ sending = <<>>) => ENABLED PollResult)

\* C20 witness: the live worker ended a run with an Error and the commit worker
\* ended one with a VadCommit; both results wait on the channel and both workers
\* are back to waiting for a message.
C20_Witness ==
    /\ Len(results) = 2
    /\ \E i, j \in 1..2 :
          /\ results[i].kind = "Error" /\ results[i].request_id \in MintedLive
          /\ results[j].kind = "VadCommit" /\ results[j].request_id \in MintedVad
    /\ live_running = {}
    /\ vad_running = {}

\* The ids of the Transcribe messages of a queue, in queue order.
RECURSIVE QueuedIdSeq(_)
QueuedIdSeq(queue) ==
    IF queue = <<>> THEN <<>>
    ELSE (IF Head(queue).type = "Transcribe" THEN <<Head(queue).request_id>> ELSE <<>>)
         \o QueuedIdSeq(Tail(queue))

\* The ids of the results consumed by the control thread.
ConsumedIds == {p[2] : p \in accepted \cup discarded}

\* The ids of the results of a lane that are on the channel or were consumed.
ProducedIds(laneIds) ==
    ({results[i].request_id : i \in 1..Len(results)} \cup ConsumedIds) \cap laneIds

\* What a worker does when it takes a message: it takes the head of its queue,
\* and an inference it starts is for the oldest Transcribe enqueued.
TakesInOrder(queue, queueAfter, running, runningAfter) ==
    (running = {} /\ runningAfter # {}) =>
        /\ queueAfter = Tail(queue)
        /\ Head(queue).type = "Transcribe"
        /\ runningAfter = {Head(queue).request_id}
        /\ \A id \in QueuedIds(queueAfter) : \A r \in runningAfter : r < id

\* The result the step sends, if any, has a larger id than every result its lane
\* produced before.
SendsInOrder(laneIds) ==
    (/\ Len(results') > Len(results)
     /\ results'[Len(results')].request_id \in laneIds)
        => \A id \in ProducedIds(laneIds) : id < results'[Len(results')].request_id

\* C21: each lane's queue holds its Transcribe messages in the order they were
\* emitted (increasing ids); a worker always takes the head of its queue, so the
\* request it runs is older than every request still queued; and every result a
\* lane sends has a larger id than every result that lane sent before, whatever
\* the other lane does.
C21_LaneInOrder ==
    /\ [](\A q \in {QueuedIdSeq(live_queue), QueuedIdSeq(vad_queue)} :
            \A i, j \in 1..Len(q) : i < j => q[i] < q[j])
    /\ [][/\ TakesInOrder(live_queue, live_queue', live_running, live_running')
          /\ TakesInOrder(vad_queue, vad_queue', vad_running, vad_running')
          /\ SendsInOrder(MintedLive)
          /\ SendsInOrder(MintedVad)]_vars

\* C21 witness: two results of the live lane wait on the channel, in the order
\* their requests were enqueued, while the commit worker is running.
C21_Witness ==
    /\ \E i, j \in 1..Len(results) :
          /\ i < j
          /\ results[i].request_id \in MintedLive
          /\ results[j].request_id \in MintedLive
          /\ results[i].request_id < results[j].request_id
    /\ vad_running # {}

\* C22: with d = compute_text_diff(old, new), d deletes no more characters than
\* old has, and old without its last d.chars_to_delete characters, followed by
\* d.suffix_to_type, is exactly new.
C22_DiffRoundTrip ==
    diff_result # <<>> =>
        LET d == diff_result[1]
        IN  /\ d.chars_to_delete <= Len(old_text)
            /\ SubSeq(old_text, 1, Len(old_text) - d.chars_to_delete) \o d.suffix_to_type
                  = new_text

\* C22 witness: a diff of two texts with multi-byte characters that keeps a
\* common prefix, deletes something and types something.
C22_Witness ==
    /\ diff_result # <<>>
    /\ diff_result[1].common_prefix_bytes > 1
    /\ diff_result[1].chars_to_delete > 0
    /\ diff_result[1].suffix_to_type # <<>>
    /\ ByteLen(old_text) > Len(old_text)

\* C23: compute_text_diff returns chars_to_delete = charCount(old) - L and
\* suffix_to_type = new beyond its first L characters, L being the number of
\* characters of the longest common prefix of old and new; so ("", "") gives
\* (0, ""), an empty old (0, new), an empty new (charCount(old), "") and texts
\* with different first characters (charCount(old), new).
C23_DiffMinimal ==
    diff_result # <<>> =>
        LET d == diff_result[1]
            L == CommonPrefixChars(old_text, new_text)
        IN  /\ d.chars_to_delete = Len(old_text) - L
            /\ d.suffix_to_type = DropChars(new_text, L)
            /\ (old_text = <<>> /\ new_text = <<>>)
                  => (d.chars_to_delete = 0 /\ d.suffix_to_type = <<>>)
            /\ old_text = <<>> => (d.chars_to_delete = 0 /\ d.suffix_to_type = new_text)
            /\ new_text = <<>>
                  => (d.chars_to_delete = Len(old_text) /\ d.suffix_to_type = <<>>)
            /\ (old_text # <<>> /\ new_text # <<>> /\ old_text[1] # new_text[1])
                  => (d.chars_to_delete = Len(old_text) /\ d.suffix_to_type = new_text)

\* C23 witness: the diff of two texts that share their first two characters and
\* then differ.
C23_Witness ==
    /\ diff_result # <<>>
    /\ CommonPrefixChars(old_text, new_text) = 2
    /\ Len(old_text) = 3
    /\ Len(new_text) = 3
    /\ diff_result[1].chars_to_delete = 1

\* C24: compute_text_diff(x, x) returns chars_to_delete = 0, suffix_to_type = ""
\* and common_prefix_bytes = the length of x in bytes.
C24_DiffIdempotent ==
    (diff_result # <<>> /\ old_text = new_text) =>
        /\ diff_result[1].chars_to_delete = 0
        /\ diff_result[1].suffix_to_type = <<>>
        /\ diff_result[1].common_prefix_bytes = ByteLen(old_text)

\* C24 witness: the diff of a text of multi-byte characters with itself.
C24_Witness ==
    /\ diff_result # <<>>
    /\ old_text = new_text
    /\ Len(old_text) = 3
    /\ ByteLen(old_text) = 9

\* C25: compute_append(old, new) returns Some(s) exactly when new is old followed
\* by a non-empty s, and None otherwise (old = new included); and when it
\* returns Some(s), compute_text_diff(old, new) returns chars_to_delete = 0 and
\* suffix_to_type = s.
C25_AppendIsPureExtension ==
    append_result # <<>> =>
        /\ append_result[1] = IF IsProperPrefix(old_text, new_text)
                              THEN {DropChars(new_text, Len(old_text))}
                              ELSE {}
        /\ (diff_result # <<>> /\ append_result[1] # {}) =>
              /\ diff_result[1].chars_to_delete = 0
              /\ {diff_result[1].suffix_to_type} = append_result[1]

\* C25 witness: both functions called on a text and an extension of it, the
\* text holding a multi-byte character.
C25_Witness ==
    /\ append_result # <<>>
    /\ diff_result # <<>>
    /\ append_result[1] # {}
    /\ old_text # <<>>
    /\ ByteLen(old_text) > Len(old_text)

\* The byte offsets of the character boundaries of a text.
Boundaries(text) == {ByteLen(SubSeq(text, 1, j)) : j \in 0..Len(text)}

\* C26: for texts of characters 1 to 4 bytes wide, common_prefix_bytes is the
\* sum of the widths of the characters of the common prefix, a character
\* boundary of old and of new, and chars_to_delete is the number of characters,
\* not of bytes, of old beyond that prefix.
C26_NoSplitCharacter ==
    diff_result # <<>> =>
        LET d == diff_result[1]
            L == CommonPrefixChars(old_text, new_text)
        IN  /\ d.common_prefix_bytes = ByteLen(SubSeq(old_text, 1, L))
            /\ d.common_prefix_bytes \in Boundaries(old_text) \cap Boundaries(new_text)
            /\ d.chars_to_delete = Len(DropChars(old_text, L))
            /\ Encode(d.suffix_to_type)
                  = SubSeq(Encode(new_text), d.common_prefix_bytes + 1, ByteLen(new_text))

\* C26 witness: the common prefix is a four-byte and a three-byte character and
\* the character of old after it is two bytes wide.
C26_Witness ==
    /\ diff_result # <<>>
    /\ diff_result[1].common_prefix_bytes = 7
    /\ diff_result[1].chars_to_delete = 1
    /\ Len(old_text) = 3
    /\ ByteLen(old_text) = 9

\* The number of places where t occurs as a substring of s.
Occurrences(t, s) ==
    Cardinality({i \in 1..(Len(s) - Len(t) + 1) : SubSeq(s, i, i + Len(t) - 1) = t})

ResultIds(kinds) ==
    {results[i].request_id : i \in {j \in 1..Len(results) : results[j].kind \in kinds}}

\* C28: an id held by a lane's pending slot is the id of a Transcribe message in
\* that lane's queue, of the inference that lane's worker is running, or of a
\* result of that lane waiting on the result channel.
C28_PendingTracksWork ==
    /\ pending_live_request \subseteq
          QueuedIds(live_queue) \cup live_running \cup ResultIds({"LivePreview", "Error"})
    /\ pending_vad_request \subseteq
          QueuedIds(vad_queue) \cup vad_running \cup ResultIds({"VadCommit", "Error"})

\* C29: when the workers go on and the control thread goes on polling, a pending
\* slot that is set is eventually empty, and every commit request emitted
\* reaches the commit worker, whose result for it is eventually consumed.
C29_Progress ==
    /\ (pending_live_request # {}) ~> (pending_live_request = {})
    /\ (pending_vad_request # {}) ~> (pending_vad_request = {})
    /\ \A id \in RequestIds : (id \in MintedVad) ~> (id \in ConsumedIds)

\* C30: a silence chunk that finds the streak at the commit threshold, the
\* buffer non-empty and a commit request pending returns no action and keeps
\* vad_buffer and chunks_since_vad_commit; while the silence lasts the buffer
\* stays as it is; and the first silence chunk that then finds the slot empty
\* returns the SubmitVadRequest with that buffer (padded) and a new id.
C30_CommitDeferred ==
    [][/\ \A rms \in ChunkRms :
            (process_audio_chunk(rms) /\ is_silence(rms) /\ vad_buffer # <<>>) =>
                /\ (silence_streak + 1 >= COMMIT_SILENCE_CHUNKS /\ pending_vad_request # {})
                      => /\ actions' = <<>>
                         /\ vad_buffer' = vad_buffer
                         /\ chunks_since_vad_commit' = chunks_since_vad_commit
                         /\ UNCHANGED <<pending_vad_request, pending_live_request>>
                /\ (silence_streak >= COMMIT_SILENCE_CHUNKS /\ pending_vad_request = {})
                      => /\ actions' # <<>>
                         /\ actions'[1] = SubmitVadRequest(Padded(vad_buffer), next_request_id)
                         /\ pending_vad_request' = {next_request_id}
       /\ (silence_streak >= COMMIT_SILENCE_CHUNKS /\ silence_streak' >= silence_streak)
            => (vad_buffer' = vad_buffer \/ CountOf(actions', "SubmitVadRequest") = 1)]_vars

\* C30 witness: a commit request was emitted by a silence chunk later than the
\* one that reached the threshold: the commit had been deferred.
C30_Witness ==
    /\ silence_streak > COMMIT_SILENCE_CHUNKS
    /\ Len(actions) >= 1
    /\ actions[1].type = "SubmitVadRequest"
    /\ pending_vad_request = {actions[1].request_id}
    /\ vad_buffer = <<>>

\* C31: process_audio_chunk returns a SubmitLiveRequest exactly when the chunk
\* is speech, the incremented chunks_since_vad_commit is at least
\* LIVE_PREVIEW_DELAY_CHUNKS and no live request is pending; the request has
\* the next id, which becomes the pending live id.  So none is returned for a
\* silent chunk, before the delay, or while a live request is pending.
C31_LiveTrigger ==
    [][\A rms \in ChunkRms :
          process_audio_chunk(rms) =>
              LET trigger == /\ ~is_silence(rms)
                             /\ chunks_since_vad_commit + 1 >= LIVE_PREVIEW_DELAY_CHUNKS
                             /\ pending_live_request = {}
              IN  /\ CountOf(actions', "SubmitLiveRequest") = (IF trigger THEN 1 ELSE 0)
                  /\ trigger => /\ actions'[1].type = "SubmitLiveRequest"
                                /\ actions'[1].request_id = next_request_id
                                /\ pending_live_request' = {next_request_id}
                  /\ (~is_silence(rms) /\ ~trigger) =>
                         pending_live_request' = pending_live_request]_vars

\* C31 witness: a live request was just returned on a speech chunk later than
\* the one that reached the delay (an earlier one had been pending meanwhile).
C31_Witness ==
    /\ Len(actions) = 1
    /\ actions[1].type = "SubmitLiveRequest"
    /\ pending_live_request = {actions[1].request_id}
    /\ chunks_since_vad_commit > LIVE_PREVIEW_DELAY_CHUNKS
    /\ silence_streak = 0

\* The chunks begin with speech and hold no run of more than
\* MAX_TRAILING_SILENCE_CHUNKS silent chunks.
SpeechLed(chunks) ==
    /\ chunks # <<>>
    /\ ~is_silence(chunks[1])
    /\ \A i \in 1..Len(chunks) :
          i + MAX_TRAILING_SILENCE_CHUNKS <= Len(chunks) =>
              \E j \in i..(i + MAX_TRAILING_SILENCE_CHUNKS) : ~is_silence(chunks[j])

\* C32: a silent chunk is appended to vad_buffer exactly when the buffer is
\* non-empty and the incremented silence_streak is at most
\* MAX_TRAILING_SILENCE_CHUNKS; and the audio of every SubmitVadRequest starts
\* with a speech chunk and has no run of more than MAX_TRAILING_SILENCE_CHUNKS
\* silent chunks before the padding.
C32_TrailingSilence ==
    /\ [][\A rms \in ChunkRms :
             (process_audio_chunk(rms) /\ is_silence(rms)) =>
                 LET kept == IF vad_buffer # <<>>
                                /\ silence_streak + 1 <= MAX_TRAILING_SILENCE_CHUNKS
                             THEN Append(vad_buffer, rms)
                             ELSE vad_buffer
                 IN  IF CountOf(actions', "SubmitVadRequest") = 1
                     THEN actions'[1].audio.chunks = kept
                     ELSE vad_buffer' = kept]_vars
    /\ [](\A i \in 1..Len(actions) :
            actions[i].type = "SubmitVadRequest" => SpeechLed(actions[i].audio.chunks))
    /\ [](vad_buffer # <<>> => SpeechLed(vad_buffer))

\* C32 witness: a commit request whose audio has a pause inside the speech and
\* ends with MAX_TRAILING_SILENCE_CHUNKS silent chunks.
C32_Witness ==
    /\ Len(actions) >= 1
    /\ actions[1].type = "SubmitVadRequest"
    /\ LET chunks == actions[1].audio.chunks
           n == Len(chunks)
       IN  /\ n > MAX_TRAILING_SILENCE_CHUNKS + 2
           /\ \A j \in (n - MAX_TRAILING_SILENCE_CHUNKS + 1)..n : is_silence(chunks[j])
           /\ \E j \in 2..(n - MAX_TRAILING_SILENCE_CHUNKS - 1) :
                 is_silence(chunks[j]) /\ ~is_silence(chunks[j + 1])

\* The chunks of a sequence of audio buffers, one after the other.
RECURSIVE Flatten(_)
Flatten(buffers) == IF buffers = <<>> THEN <<>> ELSE Head(buffers) \o Flatten(Tail(buffers))

IsSpeechChunk(c) == ~is_silence(c)

SpeechOf(chunks) == SelectSeq(chunks, IsSpeechChunk)

\* C33: vad_buffer is emptied only by a step that returns a SubmitVadRequest or
\* by reset; and the speech chunks passed since the last reset are, in arrival
\* order, exactly the speech chunks of the commit requests returned since then
\* followed by those still in vad_buffer: each is in the audio of at most one
\* commit request, and of exactly one once a commit request was returned after
\* it (that step leaves the buffer empty).
C33_SpeechCommittedOnce ==
    /\ [](heard = SpeechOf(Flatten(committed_audio) \o vad_buffer))
    /\ [][/\ ((vad_buffer # <<>> /\ vad_buffer' = <<>>)
                => (CountOf(actions', "SubmitVadRequest") = 1 \/ reset))
           /\ ((\E rms \in AudioRms :
                   process_audio_chunk(rms) /\ CountOf(actions', "SubmitVadRequest") = 1)
                => (vad_buffer' = <<>> /\ heard' = SpeechOf(Flatten(committed_audio'))))]_vars

\* C33 witness: two commit requests were returned in one session, for speech
\* chunks that differ, and a further speech chunk waits in the buffer.
C33_Witness ==
    /\ Len(committed_audio) = 2
    /\ SpeechOf(committed_audio[1]) # SpeechOf(committed_audio[2])
    /\ vad_buffer # <<>>
    /\ Len(heard) > 2

\* C34: the result or error of a request emitted before the last start event
\* (reset) is discarded when the control thread consumes it: the state machine
\* returns NoAction and no field of it changes, whatever was submitted since.
C34_OldSessionRejected ==
    [][(/\ PollResult
        /\ Head(results).request_id \in old_session)
            => (UNCHANGED smVars /\ actions' = <<NoAction>>)]_vars

\* C34 witness: a result of the previous session was consumed and discarded
\* after a request of the new session had been emitted, which is still pending.
C34_Witness ==
    /\ \E d \in discarded : d[2] \in old_session
    /\ \E id \in pending_vad_request \cup pending_live_request :
          /\ id \notin old_session
          /\ \A d \in discarded : d[2] \in old_session => U64Less(d[2], id)
    /\ actions = <<NoAction>>

\* What the live lane cannot reach: the committed text, the commit buffer and
\* the counters.
commitGround == <<vad_committed_text, vad_buffer, silence_streak, chunks_since_vad_commit,
                  next_request_id>>

\* What consuming a commit result does to the committed text, from the commit
\* lane's own state.
CommitLaneStep(result) ==
    vad_committed_text' = IF pending_vad_request = {result.request_id} /\ result.text # <<>>
                          THEN vad_committed_text \o result.text \o <<" ">>
                          ELSE vad_committed_text

\* C35 as stated: vad_committed_text is the accepted commit results joined in
\* their order, whatever live results and errors were consumed in between;
\* consuming a live result or an error changes none of vad_committed_text,
\* vad_buffer, the counters and pending_vad_request.
C35_HandlersLeaveCommitLane ==
    /\ [](vad_committed_text = Joined(commit_log))
    /\ [][PollResult =>
             /\ (Head(results).kind = "VadCommit" => CommitLaneStep(Head(results)))
             /\ (Head(results).kind \in {"LivePreview", "Error"}
                   => UNCHANGED <<commitGround, pending_vad_request>>)]_vars

\* C35 amended: the same, except that an error carrying the id of the pending
\* commit request empties pending_vad_request (and changes nothing else of the
\* commit lane).
C35_LanesIndependent ==
    /\ [](vad_committed_text = Joined(commit_log))
    /\ [][PollResult =>
             /\ (Head(results).kind = "VadCommit" => CommitLaneStep(Head(results)))
             /\ (Head(results).kind = "LivePreview"
                   => UNCHANGED <<commitGround, pending_vad_request>>)
             /\ (Head(results).kind = "Error"
                   => /\ UNCHANGED commitGround
                      /\ pending_vad_request' =
                            IF pending_vad_request = {Head(results).request_id}
                            THEN {} ELSE pending_vad_request)]_vars

\* C35 witness: a live result was accepted while an older commit request was
\* still pending (the lanes answered out of submission order), after an earlier
\* commit had been accepted.
C35_Witness ==
    /\ commit_log # <<>>
    /\ pending_vad_request # {}
    /\ \E l \in accepted :
          /\ l[1] = "LivePreview"
          /\ \A v \in pending_vad_request : U64Less(v, l[2])
    /\ live_preview_text # vad_committed_text

\* C36: fed the same accepted results, TranscriptionState with its
\* AppendText/ReplaceText actions replayed and the reference StateManager with
\* its (delete everything shown, retype the full text) actions replayed show
\* the same text after every step and hold the same vad_committed_text and
\* live_preview_text.
C36_RefinesRetypeModel ==
    /\ surface = ref_screen
    /\ vad_committed_text = ref_vad_committed_text
    /\ live_preview_text = ref_live_preview_text

\* C36 witness: the state machine has just replaced only the end of the text
\* shown, keeping a prefix the reference deleted and retyped, after a commit
\* and a live result were accepted.
C36_Witness ==
    /\ Len(actions) = 1
    /\ actions[1].type = "ReplaceText"
    /\ actions[1].chars_to_delete > 0
    /\ actions[1].new_text # <<>>
    /\ Len(ref_screen) > Len(actions[1].new_text)
    /\ commit_log # <<>>
    /\ live_shown

\* The types of the actions of a batch.
TypesOf(batch) == {batch[i].type : i \in 1..Len(batch)}

\* C37: process_audio_chunk returns only SubmitVadRequest, SubmitLiveRequest
\* and CancelLiveRequest, at most one of each, never a SubmitVadRequest with a
\* SubmitLiveRequest, and a CancelLiveRequest only with a SubmitVadRequest;
\* process_vad_result and process_live_result return one AppendText,
\* ReplaceText or NoAction.  So every action meets an arm of the control loop
\* that handles it.
C37_ActionRouting ==
    [][/\ (\E rms \in ChunkRms : process_audio_chunk(rms))
            => /\ TypesOf(actions') \subseteq
                     {"SubmitVadRequest", "SubmitLiveRequest", "CancelLiveRequest"}
               /\ \A t \in TypesOf(actions') : CountOf(actions', t) = 1
               /\ ~({"SubmitVadRequest", "SubmitLiveRequest"} \subseteq TypesOf(actions'))
               /\ ("CancelLiveRequest" \in TypesOf(actions')
                     => "SubmitVadRequest" \in TypesOf(actions'))
       /\ (\E text \in Texts, request_id \in RequestIds :
               process_vad_result(text, request_id) \/ process_live_result(text, request_id))
            => /\ Len(actions') = 1
               /\ TypesOf(actions') \subseteq {"AppendText", "ReplaceText", "NoAction"}]_vars

\* C37 witness: a chunk has just returned a commit request together with the
\* cancellation of the pending live request.
C37_Witness ==
    /\ Len(actions) = 2
    /\ actions[1].type = "SubmitVadRequest"
    /\ actions[2].type = "CancelLiveRequest"
    /\ pending_live_request = {}
    /\ pending_vad_request = {actions[1].request_id}

\* The samples of an audio buffer handed to a worker.
SampleCount(audio) == Len(audio.chunks) * samples_per_chunk + audio.zeros

\* vad_buffer at the point where process_audio_chunk builds a request.
BufferWith(rms) ==
    IF is_silence(rms)
    THEN IF vad_buffer # <<>> /\ silence_streak + 1 <= MAX_TRAILING_SILENCE_CHUNKS
         THEN Append(vad_buffer, rms) ELSE vad_buffer
    ELSE Append(vad_buffer, rms)

\* C38: the audio of every SubmitVadRequest and SubmitLiveRequest has at least
\* MIN_WHISPER_SAMPLES samples and is the contents of vad_buffer followed only
\* by zero samples; returning a SubmitLiveRequest leaves vad_buffer as it was
\* (with the new chunk), so no padding is ever held in vad_buffer or in the
\* chunks of a later request.
C38_MinimumAudio ==
    /\ [][\A rms \in AudioRms :
             process_audio_chunk(rms) =>
                 \A i \in 1..Len(actions') :
                     (actions'[i].type \in {"SubmitVadRequest", "SubmitLiveRequest"}) =>
                         /\ actions'[i].audio.chunks = BufferWith(rms)
                         /\ actions'[i].audio.zeros >= 0
                         /\ SampleCount(actions'[i].audio) >= MIN_WHISPER_SAMPLES
                         /\ (actions'[i].type = "SubmitLiveRequest"
                               => vad_buffer' = BufferWith(rms))]_vars
    /\ [](\A i \in 1..Len(vad_buffer) : vad_buffer[i] \in AudioRms)
    /\ [](\A i \in 1..Len(committed_audio) :
            \A j \in 1..Len(committed_audio[i]) : committed_audio[i][j] \in AudioRms)

\* C38 witness: a commit request padded with zeros, for a buffer from which a
\* padded live request had been made before (chunks shorter than the default).
C38_Witness ==
    /\ Len(actions) >= 1
    /\ actions[1].type = "SubmitVadRequest"
    /\ actions[1].audio.zeros > 0
    /\ Len(SpeechOf(actions[1].audio.chunks)) >= LIVE_PREVIEW_DELAY_CHUNKS
    /\ SampleCount(actions[1].audio) = MIN_WHISPER_SAMPLES

\* C39: after every message a worker handles, its cancelled_ids holds at most
\* MAX_CANCELLED_IDS ids; a Cancel that would make it larger leaves the set
\* with the new id and without its smallest id; CancelAllBefore leaves it
\* empty.
C39_CancelledIdsBounded ==
    /\ [](/\ Cardinality(live_cancelled_ids) <= MAX_CANCELLED_IDS
          /\ Cardinality(vad_cancelled_ids) <= MAX_CANCELLED_IDS)
    /\ [][/\ ((ReceiveCancel /\ Cardinality(live_cancelled_ids) = MAX_CANCELLED_IDS)
                => (/\ Cardinality(live_cancelled_ids') = MAX_CANCELLED_IDS
                    /\ live_cancelled_ids' \ live_cancelled_ids
                          = {Max(live_cancelled_ids) + 1}
                    /\ live_cancelled_ids \ live_cancelled_ids' = {Min(live_cancelled_ids)}
                    /\ vad_cancelled_ids' = live_cancelled_ids'))
           /\ (ReceiveCancelAllBefore
                => (live_cancelled_ids' = {} /\ vad_cancelled_ids' = {}))]_vars

\* C39 witness: the set is full and has lost its smallest ids to evictions.
C39_Witness ==
    /\ Cardinality(live_cancelled_ids) = MAX_CANCELLED_IDS
    /\ Cardinality(vad_cancelled_ids) = MAX_CANCELLED_IDS
    /\ 1 \notin live_cancelled_ids
    /\ MaxCancelId \in live_cancelled_ids

====
